---------------------------- MODULE Spec2Model ----------------------------
(***************************************************************************)
(* ATS-Resume-Builder: the deterministic text-analysis pipeline of the     *)
(* backend (section detection, JD intelligence, gap analysis, ATS score).  *)
(*                                                                         *)
(* Text is modelled character by character: a Python str is a TLA+ string, *)
(* read with Len, SubSeq and \o.  Regular expressions are modelled by a    *)
(* small backtracking matcher over pattern trees that are written down     *)
(* pattern by pattern from the source.  TLA+ strings are ASCII, so the two  *)
(* kinds of non-ASCII characters the source names are written with         *)
(* stand-ins: BULLET for U+2022 and BOXCHAR for the box-drawing class.      *)
(***************************************************************************)
EXTENDS Integers, Sequences, FiniteSets, TLC

VARIABLES
    pc,              \* "call" before the function under study ran, "return" after
    text,            \* detect_sections: the resume text
    sections,        \* detect_sections: the dict it returns
    jd_text,         \* extract_jd_intelligence: the JD text
    hash_seed,       \* the process's str hash seed (decides set iteration order)
    jd_data,         \* extract_jd_intelligence: the dict it returns
    resume_sections, \* calculate_ats_score: the SectionMap A handed in
    appended,        \* calculate_ats_score: A with the primary keywords appended
    report,          \* calculate_ats_score(resume_sections, jd_data)
    report_appended, \* calculate_ats_score(appended, jd_data)
    gaps,            \* analyze_gaps(resume_sections, jd_data)
    resume_store,    \* api/resume.py: the dict resume_store
    api_response,    \* the status code of the last response (0 before any)
    rewrite_call,    \* _rewrite_bullet / _rewrite_summary: the call's inputs
    rewrite_result,  \* the text the call returns
    cleaned_text,    \* _clean_jd(jd_text.strip())
    optimized_sections, \* rewrite_resume(resume_sections, jd_data, gaps)
    report_optimized,   \* calculate_ats_score(optimized_sections, jd_data)
    jd_store,        \* api/jd.py: the dict jd_store
    job_store,       \* api/optimize.py: the dict job_store
    api_request,     \* the last request
    api_body,        \* the body of the last response
    seen_jobs        \* the job entries read while the last request was served

segVars   == <<text, sections>>
jdVars    == <<jd_text, hash_seed, jd_data>>
scoreVars == <<resume_sections, appended, report, report_appended>>
gapVars   == <<gaps>>
apiVars   == <<resume_store, api_response>>
rewriteVars == <<rewrite_call, rewrite_result>>

pipeVars  == <<cleaned_text, optimized_sections, report_optimized>>
serverVars == <<jd_store, job_store, api_request, api_body, seen_jobs>>

vars == <<pc, segVars, jdVars, scoreVars, gapVars, apiVars, rewriteVars,
          pipeVars, serverVars>>

----------------------------------------------------------------------------
(* Python str primitives *)

Char(s, i) == SubSeq(s, i, i)

LowerAlpha == "abcdefghijklmnopqrstuvwxyz"
UpperAlpha == "ABCDEFGHIJKLMNOPQRSTUVWXYZ"
DigitChars == "0123456789"

CharsOf(s) == {Char(s, i) : i \in 1..Len(s)}

LowerSet == CharsOf(LowerAlpha)
UpperSet == CharsOf(UpperAlpha)
AlphaSet == LowerSet \cup UpperSet
DigitSet == CharsOf(DigitChars)
\* \w, \s of the re module, on ASCII
WordSet  == AlphaSet \cup DigitSet \cup {"_"}
SpaceSet == {" ", "\t", "\n", "\r", "\f"}

ToLower == [c \in UpperSet |->
              Char(LowerAlpha, CHOOSE i \in 1..26 : Char(UpperAlpha, i) = c)]
ToUpper == [c \in LowerSet |->
              Char(UpperAlpha, CHOOSE i \in 1..26 : Char(LowerAlpha, i) = c)]

lower_char(c) == IF c \in UpperSet THEN ToLower[c] ELSE c
upper_char(c) == IF c \in LowerSet THEN ToUpper[c] ELSE c

SetMin(S) == CHOOSE x \in S : \A y \in S : x <= y

\* f(arg) with arg evaluated once, before f's body, as a Python call does
Call(f(_), arg) == CHOOSE r \in {f(x) : x \in {arg}} : TRUE
SetMax(S) == CHOOSE x \in S : \A y \in S : x >= y

\* the concatenation f[lo] \o ... \o f[hi] of a family of strings
RECURSIVE Concat(_, _, _)
Concat(f, lo, hi) ==
    IF lo > hi THEN ""
    ELSE IF lo = hi THEN f[lo]
    ELSE LET mid == (lo + hi) \div 2
         IN  Concat(f, lo, mid) \o Concat(f, mid + 1, hi)

\* str.lower(), str.upper()
str_lower(s) == Concat([i \in 1..Len(s) |-> lower_char(Char(s, i))], 1, Len(s))
str_upper(s) == Concat([i \in 1..Len(s) |-> upper_char(Char(s, i))], 1, Len(s))

\* str.title(): a letter is upper-cased when no letter precedes it, else lower-cased
str_title(s) ==
    Concat([i \in 1..Len(s) |->
              IF i = 1 \/ Char(s, i - 1) \notin AlphaSet
              THEN upper_char(Char(s, i))
              ELSE lower_char(Char(s, i))], 1, Len(s))

\* str.strip()
str_strip(s) ==
    LET keep == {i \in 1..Len(s) : Char(s, i) \notin SpaceSet}
    IN  IF keep = {} THEN "" ELSE SubSeq(s, SetMin(keep), SetMax(keep))

\* str.split(sep) for a one-character separator
RECURSIVE str_split(_, _)
str_split(s, sep) ==
    LET at == {i \in 1..Len(s) : Char(s, i) = sep}
    IN  IF at = {} THEN <<s>>
        ELSE <<SubSeq(s, 1, SetMin(at) - 1)>>
             \o str_split(SubSeq(s, SetMin(at) + 1, Len(s)), sep)

\* sep.join(parts)
str_join(sep, parts) ==
    Concat([i \in 1..Len(parts) |->
              IF i = 1 THEN parts[i] ELSE sep \o parts[i]], 1, Len(parts))

\* needle in haystack
str_contains(haystack, needle) ==
    \E i \in 1..(Len(haystack) - Len(needle) + 1) :
        SubSeq(haystack, i, i + Len(needle) - 1) = needle

\* the flattening of a sequence of sequences
RECURSIVE FlattenRange(_, _, _)
FlattenRange(f, lo, hi) ==
    IF lo > hi THEN <<>>
    ELSE IF lo = hi THEN f[lo]
    ELSE LET mid == (lo + hi) \div 2
         IN  FlattenRange(f, lo, mid) \o FlattenRange(f, mid + 1, hi)
Flatten(ss) == FlattenRange(ss, 1, Len(ss))

----------------------------------------------------------------------------
(* The re module: pattern trees and a backtracking matcher.                *)
(* Match(r, s, i) is     the sequence of positions at which a match of r   *)
(* that starts at position i of s can end (the position after its last     *)
(* character), in the order in which backtracking tries them.              *)

Lit(s)       == [t |-> "lit", s |-> s]
Cls(cs)      == [t |-> "cls", cs |-> cs]          \* one character of a class
Rep(cs, min) == [t |-> "rep", cs |-> cs, min |-> min]  \* greedy class{min,}
Opt(r)       == [t |-> "opt", r |-> r]            \* (r)?
Alt(rs)      == [t |-> "alt", rs |-> rs]          \* r1|r2|...
Cat(rs)      == [t |-> "cat", rs |-> rs]          \* r1 r2 ...
WB           == [t |-> "wb"]                      \* \b
BOL          == [t |-> "bol"]                     \* ^

IsWordAt(s, i) == i >= 1 /\ i <= Len(s) /\ Char(s, i) \in WordSet
\* \b holds between the characters i-1 and i
AtBoundary(s, i) == IsWordAt(s, i - 1) # IsWordAt(s, i)

\* the length of the longest run of characters of cs that starts at i
RunLen(s, i, cs) ==
    LET stop == {j \in i..Len(s) : Char(s, j) \notin cs}
    IN  IF stop = {} THEN Len(s) + 1 - i ELSE SetMin(stop) - i

RECURSIVE Match(_, _, _)
RECURSIVE MatchCat(_, _, _, _)
MatchCat(rs, k, s, i) ==
    IF k > Len(rs) THEN <<i>>
    ELSE LET ends == Match(rs[k], s, i)
             rest == [j \in 1..(Len(s) + 1) |-> MatchCat(rs, k + 1, s, j)]
         IN  FlattenRange([n \in 1..Len(ends) |-> rest[ends[n]]], 1, Len(ends))
Match(r, s, i) ==
    CASE r.t = "lit" ->
           IF i + Len(r.s) - 1 <= Len(s) /\ SubSeq(s, i, i + Len(r.s) - 1) = r.s
           THEN <<i + Len(r.s)>> ELSE <<>>
      [] r.t = "cls" ->
           IF i <= Len(s) /\ Char(s, i) \in r.cs THEN <<i + 1>> ELSE <<>>
      [] r.t = "rep" ->
           LET n == RunLen(s, i, r.cs)
           IN  IF n < r.min THEN <<>>
               ELSE [k \in 1..(n - r.min + 1) |-> i + n + 1 - k]
      [] r.t = "opt" -> Match(r.r, s, i) \o <<i>>
      [] r.t = "alt" ->
           FlattenRange([n \in 1..Len(r.rs) |-> Match(r.rs[n], s, i)],
                        1, Len(r.rs))
      [] r.t = "cat" -> MatchCat(r.rs, 1, s, i)
      [] r.t = "wb"  -> IF AtBoundary(s, i) THEN <<i>> ELSE <<>>
      [] r.t = "bol" -> IF i = 1 THEN <<i>> ELSE <<>>

\* re.IGNORECASE: the pattern and the subject are both lower-cased, once
RECURSIVE FoldCase(_)
FoldCase(r) ==
    CASE r.t = "lit" -> Lit(str_lower(r.s))
      [] r.t = "cls" -> Cls({lower_char(c) : c \in r.cs})
      [] r.t = "rep" -> Rep({lower_char(c) : c \in r.cs}, r.min)
      [] r.t = "opt" -> Opt(FoldCase(r.r))
      [] r.t = "alt" -> Alt([n \in 1..Len(r.rs) |-> FoldCase(r.rs[n])])
      [] r.t = "cat" -> Cat([n \in 1..Len(r.rs) |-> FoldCase(r.rs[n])])
      [] OTHER -> r
Pattern(r, ic) == IF ic THEN FoldCase(r) ELSE r
Subject(s, ic) == IF ic THEN str_lower(s) ELSE s

\* the positions of t at which a match of p starts
MatchStarts(p, t) == {i \in 1..(Len(t) + 1) : Match(p, t, i) # <<>>}

\* re.match(r, s): a match that starts at the beginning of s
re_match(r, s, ic) == Match(Pattern(r, ic), Subject(s, ic), 1) # <<>>

\* re.match(r + '$', s) for an s without line breaks: a match of r that
\* starts at the beginning of s and ends at its end
re_match_end(r, s, ic) ==
    LET ends == Match(Pattern(r, ic), Subject(s, ic), 1)
    IN  \E n \in 1..Len(ends) : ends[n] = Len(s) + 1

\* re.search(r, s): a match that starts anywhere in s
re_search(r, s, ic) == MatchStarts(Pattern(r, ic), Subject(s, ic)) # {}

\* The spans <<start, end>> re.finditer yields: leftmost match first, the
\* search resumes where the match ended (one further on after an empty match).
RECURSIVE WalkSpans(_, _, _, _)
WalkSpans(p, t, starts, from) ==
    LET left == {i \in starts : i >= from}
    IN  IF left = {} THEN <<>>
        ELSE LET i == SetMin(left)
                 e == Match(p, t, i)[1]
             IN  <<<<i, e>>>> \o WalkSpans(p, t, starts, IF e = i THEN e + 1 ELSE e)
FindSpans(r, s, ic) ==
    LET p == Pattern(r, ic)
        t == Subject(s, ic)
    IN  WalkSpans(p, t, MatchStarts(p, t), 1)

\* re.findall(r, s) for a pattern read as a whole: the matched substrings of s
re_findall(r, s, ic) ==
    LET spans == FindSpans(r, s, ic)
    IN  [n \in 1..Len(spans) |-> SubSeq(s, spans[n][1], spans[n][2] - 1)]

----------------------------------------------------------------------------
(* Python dict: keys in insertion order, and their values *)

EmptyDict == [keys |-> <<>>, val |-> <<>>]

InSeq(x, q) == \E n \in 1..Len(q) : q[n] = x
IndexOf(x, q) == SetMin({n \in 1..Len(q) : q[n] = x})

HasKey(d, k) == InSeq(k, d.keys)
Get(d, k) == d.val[IndexOf(k, d.keys)]
\* d.get(k, default)
GetOr(d, k, default) == IF HasKey(d, k) THEN Get(d, k) ELSE default
\* d[k] = v: a new key goes last, an old key keeps its place
Put(d, k, v) ==
    IF HasKey(d, k)
    THEN [d EXCEPT !.val[IndexOf(k, d.keys)] = v]
    ELSE [keys |-> Append(d.keys, k), val |-> Append(d.val, v)]
\* d.values()
Values(d) == d.val

\* q[:n]
Slice(q, n) == SubSeq(q, 1, IF Len(q) < n THEN Len(q) ELSE n)

\* set(q), and whether q names every member once
SeqSet(q) == {q[n] : n \in 1..Len(q)}
NoRepeats(q) == Cardinality(SeqSet(q)) = Len(q)

----------------------------------------------------------------------------
(* services/section_detector.py *)

ws1 == Rep(SpaceSet, 1)   \* \s+
ws0 == Rep(SpaceSet, 0)   \* \s*

\* SECTION_PATTERNS, in the order of the dict; every pattern is (?i) and ^-anchored
SECTION_PATTERNS == <<
    [name |-> "summary", patterns |-> <<
        Cat(<<BOL, Opt(Cat(<<Lit("professional"), ws1>>)), Lit("summary"), WB>>),
        Cat(<<BOL, Opt(Cat(<<Lit("career"), ws1>>)), Lit("objective"), WB>>),
        Cat(<<BOL, Lit("profile"), WB>>),
        Cat(<<BOL, Lit("about"), Opt(Cat(<<ws1, Lit("me")>>)), WB>>),
        Cat(<<BOL, Lit("overview"), WB>> ) >>],
    [name |-> "experience", patterns |-> <<
        Cat(<<BOL, Opt(Cat(<<Lit("work"), ws1>>)), Lit("experience"), WB>>),
        Cat(<<BOL, Alt(<<Lit("employment"), Lit("work")>>), ws1, Lit("history"), WB>>),
        Cat(<<BOL, Lit("professional"), ws1, Lit("experience"), WB>>),
        Cat(<<BOL, Lit("career"), ws1, Lit("history"), WB>>) >>],
    [name |-> "skills", patterns |-> <<
        Cat(<<BOL, Opt(Cat(<<Lit("technical"), ws1>>)), Lit("skills"), WB>>),
        Cat(<<BOL, Lit("technologies"), WB>>),
        Cat(<<BOL, Lit("competencies"), WB>>),
        Cat(<<BOL, Lit("expertise"), WB>>),
        Cat(<<BOL, Lit("tools"), ws0, Alt(<<Lit("and"), Lit("&")>>), ws0,
              Lit("technologies"), WB>>) >>],
    [name |-> "education", patterns |-> <<
        Cat(<<BOL, Lit("education"), WB>>),
        Cat(<<BOL, Lit("academic"), ws1,
              Alt(<<Lit("background"), Lit("qualifications")>>), WB>>),
        Cat(<<BOL, Lit("degree"), Opt(Lit("s")), WB>>),
        Cat(<<BOL, Lit("qualifications"), WB>>) >>],
    [name |-> "projects", patterns |-> <<
        Cat(<<BOL, Opt(Cat(<<Lit("personal"), ws1>>)), Lit("projects"), WB>>),
        Cat(<<BOL, Lit("portfolio"), WB>>),
        Cat(<<BOL, Lit("key"), ws1, Lit("projects"), WB>>) >>],
    [name |-> "certifications", patterns |-> <<
        Cat(<<BOL, Lit("certification"), Opt(Lit("s")), WB>>),
        Cat(<<BOL, Lit("license"), Opt(Lit("s")), ws0,
              Opt(Alt(<<Lit("and"), Lit("&")>>)), ws0,
              Lit("certification"), Opt(Lit("s")), WB>>),
        Cat(<<BOL, Lit("professional"), ws1, Lit("certification"), Opt(Lit("s")),
              WB>>) >>] >>

REQUIRED_SECTIONS == <<"summary", "experience", "skills", "education">>

\* r'\b(19|20)\d{2}\b'
YEAR_PATTERN ==
    Cat(<<WB, Alt(<<Lit("19"), Lit("20")>>), Cls(DigitSet), Cls(DigitSet), WB>>)

\* r'(Python|Java|SQL|AWS|React|Node)', re.I
TECH_PATTERN ==
    Alt(<<Lit("Python"), Lit("Java"), Lit("SQL"), Lit("AWS"), Lit("React"),
          Lit("Node")>>)

\* the non-blank lines of q, as they are
NonBlank(q) == SelectSeq(q, LAMBDA line : str_strip(line) # "")

summary_lines_all(other_lines) == other_lines
\* other_lines[:5] (line 136)
summary_lines(other_lines) == Slice(other_lines, 5)

\* _infer_sections(text): lines 103-138
infer_sections(txt) ==
    LET lines == str_split(txt, "\n")
        clean == NonBlank([i \in 1..Len(lines) |-> str_strip(lines[i])])
        IsExp(line)   == re_search(YEAR_PATTERN, line, FALSE)
        IsSkill(line) == ~IsExp(line) /\ re_search(TECH_PATTERN, line, TRUE)
        experience_lines == SelectSeq(clean, IsExp)
        skill_lines      == SelectSeq(clean, IsSkill)
        other_lines      == SelectSeq(clean,
                                LAMBDA line : ~IsExp(line) /\ ~IsSkill(line))
        d1 == IF experience_lines # <<>>
              THEN Put(EmptyDict, "experience", str_join("\n", experience_lines))
              ELSE EmptyDict
        d2 == IF skill_lines # <<>>
              THEN Put(d1, "skills", str_join("\n", skill_lines))
              ELSE d1
    IN  IF other_lines # <<>>
        THEN Put(d2, "summary", str_join("\n", summary_lines(other_lines)))
        ELSE d2

\* the section names whose patterns match the stripped line, in dict order
HeaderNames(line_clean) ==
    LET hit == [n \in 1..Len(SECTION_PATTERNS) |->
                  IF \E k \in 1..Len(SECTION_PATTERNS[n].patterns) :
                        re_match(SECTION_PATTERNS[n].patterns[k], line_clean, TRUE)
                  THEN <<SECTION_PATTERNS[n].name>> ELSE <<>>]
    IN  Flatten(hit)

\* section_markers of detect_sections (lines 61-72): <<line number, section name>>
\* in document order; line numbers count from 1 here
section_markers(lines) ==
    Flatten([i \in 1..Len(lines) |->
        LET line_clean == str_strip(lines[i])
            names == IF line_clean = "" THEN <<>> ELSE HeaderNames(line_clean)
        IN  [n \in 1..Len(names) |-> <<i, names[n]>>]])

\* the content of marker idx (lines 79-88): the lines after its header line and
\* before the next marker's line, blank lines dropped, joined and stripped
marker_content(lines, markers, idx) ==
    LET end_line == IF idx + 1 <= Len(markers) THEN markers[idx + 1][1]
                    ELSE Len(lines) + 1
        content_lines == SubSeq(lines, markers[idx][1] + 1, end_line - 1)
    IN  str_strip(str_join("\n", NonBlank(content_lines)))

\* the loop of lines 77-88: sections[section_name] = content, marker by marker
RECURSIVE fill_sections(_, _, _, _)
fill_sections(d, lines, markers, idx) ==
    IF idx > Len(markers) THEN d
    ELSE fill_sections(Put(d, markers[idx][2], marker_content(lines, markers, idx)),
                       lines, markers, idx + 1)

ensure_required_skipped(d, k) == d
\* lines 96-98: every required section exists
RECURSIVE ensure_required(_, _)
ensure_required(d, k) ==
    IF k > Len(REQUIRED_SECTIONS) THEN d
    ELSE ensure_required(IF HasKey(d, REQUIRED_SECTIONS[k]) THEN d
                         ELSE Put(d, REQUIRED_SECTIONS[k], ""), k + 1)

use_inference_always(found) == TRUE
\* if not sections (line 91)
use_inference(found) == found.keys = <<>>

\* detect_sections(text): lines 52-100
detect_sections(txt) ==
    LET lines   == str_split(txt, "\n")
        markers == section_markers(lines)
        found   == fill_sections(EmptyDict, lines, markers, 1)
        secs    == IF use_inference(found) THEN infer_sections(txt) ELSE found
    IN  ensure_required(secs, 1)

----------------------------------------------------------------------------
(* services/jd_intelligence.py *)

\* TECH_SKILLS, in the order in which the set literal names its members
TECH_SKILLS == <<
    "python", "java", "javascript", "typescript", "c++", "c#", "go", "golang",
    "rust", "ruby", "php", "swift", "kotlin", "scala", "r", "sql", "html", "css",
    "react", "angular", "vue", "node.js", "nodejs", "express", "django", "flask",
    "fastapi", "spring", "spring boot", ".net", "rails", "laravel", "nextjs",
    "postgresql", "mysql", "mongodb", "redis", "elasticsearch", "dynamodb",
    "oracle", "sql server", "sqlite", "cassandra", "neo4j",
    "aws", "azure", "gcp", "google cloud", "docker", "kubernetes", "k8s",
    "terraform", "ansible", "jenkins", "gitlab", "github actions", "ci/cd",
    "pandas", "numpy", "tensorflow", "pytorch", "scikit-learn", "spark",
    "hadoop", "kafka", "airflow", "machine learning", "deep learning",
    "git", "jira", "confluence", "figma", "postman", "linux", "unix" >>

\* SENIORITY_PATTERNS, in the order of the dict; every pattern is (?i)
SENIORITY_PATTERNS == <<
    [level |-> "senior", patterns |-> <<
        Cat(<<WB, Lit("senior"), WB>>),
        Cat(<<WB, Lit("sr"), Opt(Lit(".")), WB>>),
        Cat(<<WB, Lit("lead"), WB>>),
        Cat(<<WB, Lit("staff"), WB>>) >>],
    [level |-> "mid", patterns |-> <<
        Cat(<<WB, Lit("mid"), Opt(Cls(SpaceSet \cup {"-"})), Lit("level"), WB>>),
        Cat(<<WB, Lit("intermediate"), WB>>) >>],
    [level |-> "junior", patterns |-> <<
        Cat(<<WB, Lit("junior"), WB>>),
        Cat(<<WB, Lit("jr"), Opt(Lit(".")), WB>>),
        Cat(<<WB, Lit("entry"), Opt(Cls(SpaceSet \cup {"-"})), Lit("level"), WB>>) >>],
    [level |-> "principal", patterns |-> <<
        Cat(<<WB, Lit("principal"), WB>>),
        Cat(<<WB, Lit("architect"), WB>>),
        Cat(<<WB, Lit("director"), WB>>) >> ] >>

first_level_reversed(hits) == hits[Len(hits)]
\* the return of the first level whose patterns match (lines 100-103)
first_level(hits) == hits[1]

\* _detect_seniority(text): lines 98-104
detect_seniority(txt) ==
    LET hits == SelectSeq([n \in 1..Len(SENIORITY_PATTERNS) |-> n],
                    LAMBDA n : \E k \in 1..Len(SENIORITY_PATTERNS[n].patterns) :
                        re_search(SENIORITY_PATTERNS[n].patterns[k], txt, TRUE))
    IN  IF hits = <<>> THEN "mid" ELSE SENIORITY_PATTERNS[first_level(hits)].level

\* Iterating a Python set of str visits its members in the order of their
\* hashes, which the interpreter salts per process (hash_seed).  The model
\* ranks the lexicon's members by a permutation the seed selects; seed 0 is
\* the order of the set literal.  A set's members are visited by rank.
SetRank(seed, i) ==
    LET N == Len(TECH_SKILLS)
    IN  IF seed % 2 = 0 THEN ((i - 1 + seed) % N) + 1
        ELSE ((N - i + seed) % N) + 1
\* the lexicon positions in the order in which the set is iterated
IterationOrder(seed) ==
    [r \in 1..Len(TECH_SKILLS) |->
        CHOOSE i \in 1..Len(TECH_SKILLS) : SetRank(seed, i) = r]

\* skill.title() if len(skill) > 3 else skill.upper() (line 115)
skill_label(skill) == IF Len(skill) > 3 THEN str_title(skill) ELSE str_upper(skill)

\* _extract_hard_skills(text): lines 107-117.  The result set is given as the
\* sequence in which iterating it visits its members.
extract_hard_skills(txt, seed) ==
    Call(LAMBDA found : [n \in 1..Len(found) |-> skill_label(TECH_SKILLS[found[n]])],
         Call(LAMBDA t :
                  SelectSeq(IterationOrder(seed), LAMBDA i :
                      MatchStarts(Cat(<<WB, Lit(TECH_SKILLS[i]), WB>>), t) # {}),
              Subject(txt, TRUE)))

WORD_PATTERN_WITH_DOT == Cat(<<WB, Rep(AlphaSet \cup {"."}, 3), WB>>)
\* r'\b[a-zA-Z]{3,}\b' (line 157)
WORD_PATTERN == Cat(<<WB, Rep(AlphaSet, 3), WB>>)

\* word_freq.get(w, 0): the number of times w is among words (lines 158-161)
word_freq(words, w) == Cardinality({n \in 1..Len(words) : words[n] = w})

is_primary_once(words, skill) == word_freq(words, str_lower(skill)) >= 1
\* word_freq.get(s.lower(), 0) >= 2 (line 164)
is_primary(words, skill) == word_freq(words, str_lower(skill)) >= 2

keywords_uncapped(primary, secondary) ==
    [primary |-> primary, secondary |-> secondary]
\* the returned dict (lines 169-172)
keywords_result(primary, secondary) ==
    [primary |-> Slice(primary, 10), secondary |-> Slice(secondary, 10)]

\* _extract_keywords(text, hard_skills): lines 150-172
extract_keywords(txt, hard_skills) ==
    Call(LAMBDA primary :
             keywords_result(primary,
                 SelectSeq(hard_skills, LAMBDA sk : ~InSeq(sk, primary))),
         Call(LAMBDA words : SelectSeq(hard_skills,
                                       LAMBDA sk : is_primary(words, sk)),
              re_findall(WORD_PATTERN, str_lower(txt), FALSE)))

\* r'^(job\s+title|position|role):\s*', re.I (line 91)
ROLE_PREFIX ==
    Cat(<<BOL, Alt(<<Cat(<<Lit("job"), ws1, Lit("title")>>), Lit("position"),
                     Lit("role")>>), Lit(":"), ws0>>)

\* _extract_role(text): lines 82-95
extract_role(txt) ==
    LET lines == Slice(str_split(txt, "\n"), 5)
        clean(n) == str_strip(lines[n])
        cut(line) == LET spans == FindSpans(ROLE_PREFIX, line, TRUE)
                     IN  IF spans = <<>> THEN line
                         ELSE SubSeq(line, spans[1][2], Len(line))
        ok == {n \in 1..Len(lines) :
                  clean(n) # "" /\ Len(clean(n)) < 100 /\ cut(clean(n)) # ""}
    IN  IF ok = {} THEN "Software Engineer" ELSE cut(clean(SetMin(ok)))

\* extract_jd_intelligence(text): lines 54-79
extract_jd_intelligence(txt, seed) ==
    Call(LAMBDA hard_skills :
             [role |-> extract_role(txt),
              seniority |-> detect_seniority(txt),
              hard_skills |-> hard_skills,
              keywords |-> extract_keywords(txt, hard_skills)],
         extract_hard_skills(str_lower(txt), seed))

----------------------------------------------------------------------------
(* services/scorer.py *)

\* stand-ins for the non-ASCII characters the patterns name
BULLET  == "~"    \* U+2022
BOXCHAR == "^"    \* any of the box-drawing characters of line 121

\* str(n) for a natural number
RECURSIVE str_int(_)
str_int(n) ==
    IF n < 10 THEN Char(DigitChars, n + 1)
    ELSE str_int(n \div 10) \o Char(DigitChars, (n % 10) + 1)

\* the place of a hard-skill label's lexicon entry in TECH_SKILLS
LexiconPosition(label) ==
    CHOOSE i \in 1..Len(TECH_SKILLS) : skill_label(TECH_SKILLS[i]) = label

\* the members of a set of hard-skill labels, in the order of iteration
iterate_set(S, seed) ==
    LET order == IterationOrder(seed)
        at == SelectSeq(order, LAMBDA i : skill_label(TECH_SKILLS[i]) \in S)
    IN  [n \in 1..Len(at) |-> skill_label(TECH_SKILLS[at[n]])]

\* int((m / n) * 100) in double arithmetic, for n <= 75 (all of TECH_SKILLS):
\* the product falls below the exact quotient's floor for 29/50 only
percent(m, n) == IF m = 29 /\ n = 50 THEN 57 ELSE (100 * m) \div n

\* keyword.lower() in all_text (line 80)
keyword_found(all_text, keyword) == str_contains(all_text, str_lower(keyword))

\* lines 76-94 of _score_keywords: the keywords found in the text and the others
keyword_report(all_keywords, matched_keywords, missing_keywords) ==
    LET d1 == IF matched_keywords # <<>>
              THEN <<"+ Matched " \o str_int(Len(matched_keywords)) \o " keywords: "
                     \o str_join(", ", Slice(matched_keywords, 5))>>
              ELSE <<>>
        d2 == IF missing_keywords # <<>>
              THEN <<"- Missing keywords: "
                     \o str_join(", ", Slice(missing_keywords, 5))>>
              ELSE <<>>
    IN  IF all_keywords = <<>> THEN [score |-> 100, details |-> <<>>]
        ELSE [score |-> percent(Len(matched_keywords), Len(all_keywords)),
              details |-> d1 \o d2]

\* lines 76-84 of _score_keywords
match_keywords(all_text, all_keywords) ==
    Call(LAMBDA found : keyword_report(all_keywords,
                            SelectSeq(all_keywords, LAMBDA kw : kw \in found),
                            SelectSeq(all_keywords, LAMBDA kw : kw \notin found)),
         {kw \in SeqSet(all_keywords) : keyword_found(all_text, kw)})

\* _score_keywords(sections, jd_data): lines 60-94
score_keywords(secs, jd, seed) ==
    Call(LAMBDA all_text :
             Call(LAMBDA all_keywords : match_keywords(all_text, all_keywords),
                  iterate_set(SeqSet(jd.keywords.primary)
                              \cup SeqSet(jd.keywords.secondary)
                              \cup SeqSet(jd.hard_skills), seed)),
         str_lower(str_join(" ", Values(secs))))

\* sections.get(section) and len(sections[section]) > 20 (line 104)
section_present(secs, section) ==
    GetOr(secs, section, "") # "" /\ Len(Get(secs, section)) > 20

\* _score_sections(sections): lines 97-111
score_sections(secs) ==
    LET required == REQUIRED_SECTIONS
        present == Cardinality({n \in 1..Len(required) :
                                   section_present(secs, required[n])})
    IN  [score |-> percent(present, Len(required)),
         details |-> [n \in 1..Len(required) |->
                        IF section_present(secs, required[n])
                        THEN "+ " \o str_title(required[n]) \o " section present"
                        ELSE "- Missing or empty " \o str_title(required[n])
                             \o " section"]]

\* len(all_text.split()): the number of maximal runs of non-space characters
word_count(s) ==
    Cardinality({i \in 1..Len(s) :
        Char(s, i) \notin SpaceSet /\ (i = 1 \/ Char(s, i - 1) \in SpaceSet)})

\* r'\[image\]|\[table\]', re.I (line 129)
IMAGE_TABLE_PATTERN == Alt(<<Lit("[image]"), Lit("[table]")>>)

floor_at_zero_off(n) == n - 100
\* max(0, score) (lines 144, 187)
floor_at_zero(n) == IF n < 0 THEN 0 ELSE n

\* lines 121-144 of _score_format: special and marked tell what the text
\* contains, words is its word count
format_report(special, marked, words) ==
    [score |-> floor_at_zero(100 - (IF special THEN 20 ELSE 0)
                                 - (IF marked THEN 15 ELSE 0)
                                 - (IF words < 200 THEN 15
                                    ELSE IF words > 1500 THEN 10 ELSE 0)),
     details |->
        <<IF special
          THEN "- Contains special characters that may break ATS parsing"
          ELSE "+ No problematic special characters">>
        \o (IF marked THEN <<"- Contains images or tables (not ATS-friendly)">>
            ELSE <<>>)
        \o <<IF words < 200 THEN "- Resume too short (under 200 words)"
             ELSE IF words > 1500
                  THEN "- Resume may be too long (over 1500 words)"
                  ELSE "+ Good resume length">>]

\* _score_format(sections): lines 114-144
score_format(secs) ==
    Call(LAMBDA m : format_report(m.special, m.marked, m.words),
         Call(LAMBDA all_text :
                  [special |-> BOXCHAR \in CharsOf(all_text),
                   marked |-> re_search(IMAGE_TABLE_PATTERN, all_text, TRUE),
                   words |-> word_count(all_text)],
              str_join(" ", Values(secs))))

\* the action-verb pattern of line 157, re.I
ACTION_VERBS ==
    Cat(<<WB, Alt(<<Lit("led"), Lit("developed"), Lit("built"), Lit("created"),
                    Lit("managed"), Lit("designed"), Lit("implemented"),
                    Lit("achieved"), Lit("increased"), Lit("reduced"),
                    Lit("delivered"), Lit("launched"), Lit("optimized")>>), WB>>)

\* r'\d+%|\$[\d,]+|\d+ (users|customers|projects|team members)', re.I (line 170)
METRICS ==
    Alt(<<Cat(<<Rep(DigitSet, 1), Lit("%")>>),
          Cat(<<Lit("$"), Rep(DigitSet \cup {","}, 1)>>),
          Cat(<<Rep(DigitSet, 1), Lit(" "),
                Alt(<<Lit("users"), Lit("customers"), Lit("projects"),
                      Lit("team members")>>)>>)>>)

\* r'\n[-•]\s' (line 179)
BULLET_POINT == Cat(<<Lit("\n"), Cls({"-", BULLET}), Cls(SpaceSet)>>)

verb_penalty_flat(action_count) == 10
verb_penalty_heavy(action_count) == 60
\* the deduction for the action-verb count (lines 160-167)
verb_penalty(action_count) ==
    IF action_count >= 5 THEN 0 ELSE IF action_count >= 2 THEN 10 ELSE 25

\* lines 160-187 of _score_quality: the counts of action verbs, metrics and
\* bullet points in a non-empty experience section
quality_report(action_count, metric_count, bullet_count) ==
    [score |-> floor_at_zero(100
                 - verb_penalty(action_count)
                 - (IF metric_count > 0 THEN 0 ELSE 20)
                 - (IF bullet_count >= 5 THEN 0 ELSE 10)),
     details |->
        <<IF action_count >= 5
          THEN "+ Strong use of action verbs (" \o str_int(action_count)
               \o " found)"
          ELSE IF action_count >= 2
               THEN "+ Some action verbs used (" \o str_int(action_count)
                    \o " found)"
               ELSE "- Few action verbs - bullets may be weak",
          IF metric_count > 0
          THEN "+ Contains quantifiable achievements ("
               \o str_int(metric_count) \o " metrics)"
          ELSE "- No metrics/numbers to quantify impact",
          IF bullet_count >= 5
          THEN "+ Well-structured with " \o str_int(bullet_count)
               \o " bullet points"
          ELSE "- Could use more bullet points for readability">>]

\* _score_quality(sections): lines 147-187
score_quality(secs) ==
    LET experience == GetOr(secs, "experience", "")
    IN  IF experience = ""
        THEN [score |-> 50, details |-> <<"- No experience section to evaluate">>]
        ELSE Call(LAMBDA m : quality_report(m.action_count, m.metric_count,
                                            m.bullet_count),
                  [action_count |-> Len(FindSpans(ACTION_VERBS, experience, TRUE)),
                   metric_count |-> Len(FindSpans(METRICS, experience, TRUE)),
                   bullet_count |-> Len(FindSpans(BULLET_POINT, experience, FALSE))])

weighted_total_even(k, sc, f, ql) == (25 * k + 25 * sc + 25 * f + 25 * ql + 50) \div 100
\* round(k * 0.40 + s * 0.20 + f * 0.20 + q * 0.20) (lines 45-53): the sum is a
\* multiple of 0.2, never halfway between two integers
weighted_total(k, sc, f, ql) == (40 * k + 20 * sc + 20 * f + 20 * ql + 50) \div 100

\* lines 28-57 of calculate_ats_score, for the four category reports
total_report(kw, sc, fm, ql) ==
    LET improvements == kw.details \o sc.details \o fm.details \o ql.details
    IN  [score |-> weighted_total(kw.score, sc.score, fm.score, ql.score),
         breakdown |-> [keywords |-> kw.score, sections |-> sc.score,
                        format |-> fm.score, quality |-> ql.score],
         improvements |-> SelectSeq(improvements, LAMBDA i : Char(i, 1) = "+"),
         remaining_gaps |-> SelectSeq(improvements, LAMBDA i : Char(i, 1) = "-")]

\* calculate_ats_score(resume_sections, jd_data): lines 11-57
calculate_ats_score(secs, jd, seed) ==
    Call(LAMBDA c : total_report(c.keywords, c.sections, c.format, c.quality),
         [keywords |-> score_keywords(secs, jd, seed),
          sections |-> score_sections(secs),
          format |-> score_format(secs),
          quality |-> score_quality(secs)])

----------------------------------------------------------------------------
(* services/gap_analyzer.py *)

\* r'\b(a|b|...)\b' for the alternatives alts
WholeWord(alts) == Cat(<<WB, Alt(alts), WB>>)

\* skill_patterns of _extract_resume_skills (lines 62-70), each re.I
SKILL_PATTERNS == <<
    WholeWord(<<Lit("python"), Lit("java"), Lit("javascript"), Lit("typescript"),
                Lit("c++"), Lit("c#"), Lit("go"), Lit("rust"), Lit("ruby"),
                Lit("php")>>),
    WholeWord(<<Lit("react"), Lit("angular"), Lit("vue"),
                Cat(<<Lit("node"), Opt(Lit(".")), Lit("js")>>), Lit("django"),
                Lit("flask"), Lit("spring"), Lit(".net")>>),
    WholeWord(<<Lit("aws"), Lit("azure"), Lit("gcp"), Lit("docker"),
                Lit("kubernetes"), Lit("terraform")>>),
    WholeWord(<<Lit("postgresql"), Lit("mysql"), Lit("mongodb"), Lit("redis"),
                Lit("elasticsearch")>>),
    WholeWord(<<Lit("git"), Lit("linux"), Lit("agile"), Lit("scrum"),
                Lit("ci/cd")>>),
    WholeWord(<<Lit("machine learning"), Lit("deep learning"),
                Lit("data science")>>),
    WholeWord(<<Lit("sql"), Lit("html"), Lit("css"), Lit("rest"), Lit("api"),
                Lit("microservices")>>) >>

\* set(s.lower() for s in q) (lines 25-27, 74)
lower_set(q) == {str_lower(q[n]) : n \in 1..Len(q)}

\* _extract_resume_skills(sections): lines 55-76, a set of lowercase terms
extract_resume_skills(secs) ==
    LET all_text == str_lower(str_join(" ", Values(secs)))
    IN  UNION {lower_set(re_findall(SKILL_PATTERNS[k], all_text, TRUE)) :
                  k \in 1..Len(SKILL_PATTERNS)}

\* list(S) for a set S of lowercased JD terms: its members in the order of
\* iteration (every JD term is the lowercase of a lexicon entry's label)
list_of_set(S, seed) ==
    LET order == IterationOrder(seed)
        at == SelectSeq(order, LAMBDA i : TECH_SKILLS[i] \in S)
    IN  [n \in 1..Len(at) |-> TECH_SKILLS[at[n]]]

missing_none(jd_terms, resume_skills) == {}
missing_all(jd_terms, resume_skills) == jd_terms
\* jd_terms - resume_skills (lines 30-32)
missing(jd_terms, resume_skills) == jd_terms \ resume_skills

critical_cap_off(q) == q
\* critical[:10], optional[:10] (lines 47-48)
critical_cap(q) == Slice(q, 10)

matched_cap_off(q) == q
\* list(matched)[:15] (line 50)
matched_cap(q) == Slice(q, 15)

\* r'\n[-*]\s*|\n\d+\.\s*' with BULLET for the second bullet sign (line 92)
BULLET_SPLIT ==
    Alt(<<Cat(<<Lit("\n"), Cls({"-", BULLET}), ws0>>),
          Cat(<<Lit("\n"), Rep(DigitSet, 1), Lit("."), ws0>>)>>)

\* the pattern of line 102, re.I: no word boundary after the verb
STARTS_WITH_VERB ==
    Cat(<<BOL, Alt(<<Lit("led"), Lit("developed"), Lit("built"), Lit("created"),
                     Lit("managed"), Lit("designed"), Lit("implemented"),
                     Lit("achieved"), Lit("increased"), Lit("reduced"),
                     Lit("delivered"), Lit("launched"), Lit("optimized")>>)>>)

\* r'\d+%|\d+x|\$\d+|\d+ (users|customers|team|projects)', re.I (line 107)
BULLET_METRICS ==
    Alt(<<Cat(<<Rep(DigitSet, 1), Lit("%")>>),
          Cat(<<Rep(DigitSet, 1), Lit("x")>>),
          Cat(<<Lit("$"), Rep(DigitSet, 1)>>),
          Cat(<<Rep(DigitSet, 1), Lit(" "),
                Alt(<<Lit("users"), Lit("customers"), Lit("team"),
                      Lit("projects")>>)>>)>>)

\* r'\b(was|were|been|being)\s+\w+ed\b', re.I (line 111)
PASSIVE_VOICE ==
    Cat(<<WB, Alt(<<Lit("was"), Lit("were"), Lit("been"), Lit("being")>>), ws1,
          Rep(WordSet, 1), Lit("ed"), WB>>)

\* re.split(r, s) for a pattern without groups that matches no empty string
re_split(r, s) ==
    LET spans == FindSpans(r, s, FALSE)
    IN  [n \in 1..(Len(spans) + 1) |->
            SubSeq(s, IF n = 1 THEN 1 ELSE spans[n - 1][2],
                      IF n = Len(spans) + 1 THEN Len(s) ELSE spans[n][1] - 1)]

\* the issues of one stripped fragment, in the order of lines 101-117
bullet_issues(bullet) ==
    (IF ~re_match(STARTS_WITH_VERB, bullet, TRUE)
     THEN <<"missing_action_verb">> ELSE <<>>)
    \o (IF ~re_search(BULLET_METRICS, bullet, TRUE) THEN <<"no_metrics">> ELSE <<>>)
    \o (IF re_search(PASSIVE_VOICE, bullet, TRUE) THEN <<"passive_voice">> ELSE <<>>)
    \o (IF Len(bullet) < 50 THEN <<"too_short">> ELSE <<>>)

\* bullet[:100] + "..." if len(bullet) > 100 else bullet (line 122)
bullet_text(bullet) ==
    IF Len(bullet) > 100 THEN SubSeq(bullet, 1, 100) \o "..." ELSE bullet

\* weak[:5] (line 126)
weak_cap(weak) == Slice(weak, 5)

\* _identify_weak_bullets(experience_text): lines 79-126; index counts from 0
identify_weak_bullets(experience_text) ==
    LET weak_entry(i, bullet) ==
            IF Len(bullet) < 20 THEN <<>>
            ELSE Call(LAMBDA issues :
                          IF issues = <<>> THEN <<>>
                          ELSE <<[index |-> i - 1, text |-> bullet_text(bullet),
                                  issues |-> issues]>>,
                        bullet_issues(bullet))
    IN  weak_cap(Flatten(
            Call(LAMBDA bullets :
                     [i \in 1..Len(bullets) |->
                        Call(LAMBDA bullet : weak_entry(i, bullet),
                             str_strip(bullets[i]))],
                 re_split(BULLET_SPLIT, experience_text))))

\* lines 25-52 of analyze_gaps
gap_report(secs, jd, seed, resume_skills) ==
    LET jd_primary == lower_set(jd.keywords.primary)
        jd_secondary == lower_set(jd.keywords.secondary)
        jd_hard_skills == lower_set(jd.hard_skills)
        missing_primary == missing(jd_primary, resume_skills)
        missing_secondary == missing(jd_secondary, resume_skills)
        missing_hard == missing(jd_hard_skills, resume_skills)
        critical == list_of_set(missing_primary
                                \cup (missing_hard \cap jd_primary), seed)
        optional == list_of_set(missing_secondary
                                \cup (missing_hard \ jd_primary), seed)
        matched == resume_skills
                   \cap (jd_hard_skills \cup jd_primary \cup jd_secondary)
    IN  [critical |-> critical_cap(critical),
         optional |-> critical_cap(optional),
         weak_bullets |-> identify_weak_bullets(GetOr(secs, "experience", "")),
         matched_skills |-> matched_cap(list_of_set(matched, seed)),
         missing_count |-> Cardinality(missing_primary) + Cardinality(missing_hard)]

\* analyze_gaps(resume_sections, jd_data): lines 11-52
analyze_gaps(secs, jd, seed) ==
    Call(LAMBDA resume_skills : gap_report(secs, jd, seed, resume_skills),
         extract_resume_skills(secs))

----------------------------------------------------------------------------
(* services/rewriter.py *)

\* s.endswith(suffix)
str_endswith(s, suffix) ==
    Len(s) >= Len(suffix) /\ SubSeq(s, Len(s) - Len(suffix) + 1, Len(s)) = suffix

\* s.strip(chars)
str_strip_chars(s, cs) ==
    LET keep == {i \in 1..Len(s) : Char(s, i) \notin cs}
    IN  IF keep = {} THEN "" ELSE SubSeq(s, SetMin(keep), SetMax(keep))

\* re.sub(r, repl, s) for a pattern that matches no empty string and a
\* replacement without group references
re_sub(r, repl, s, ic) ==
    LET spans == FindSpans(r, s, ic)
    IN  str_join(repl,
            [n \in 1..(Len(spans) + 1) |->
                SubSeq(s, IF n = 1 THEN 1 ELSE spans[n - 1][2],
                          IF n = Len(spans) + 1 THEN Len(s) ELSE spans[n][1] - 1)])

\* r'\d+%|\$[\d,]+|\d+x' (lines 457-458)
NEW_METRIC ==
    Alt(<<Cat(<<Rep(DigitSet, 1), Lit("%")>>),
          Cat(<<Lit("$"), Rep(DigitSet \cup {","}, 1)>>),
          Cat(<<Rep(DigitSet, 1), Lit("x")>>)>>)

\* _validate_rewrite(original, rewritten): lines 447-469
validate_rewrite(original, rewritten) ==
    LET orig_numbers == SeqSet(re_findall(NEW_METRIC, original, FALSE))
        new_numbers  == SeqSet(re_findall(NEW_METRIC, rewritten, FALSE))
    IN  IF new_numbers \ orig_numbers # {} THEN FALSE
        ELSE IF Len(rewritten) > Len(original) * 2 THEN FALSE
        ELSE TRUE

\* response.text.strip().strip('-*').strip().strip('"\'') with BULLET for the
\* second sign (lines 327, 381-383)
clean_bullet_reply(reply_text) ==
    str_strip_chars(str_strip(str_strip_chars(str_strip(reply_text),
                                              {"-", BULLET})), {"\"", "'"})

\* what a call of the external model came to
Raised == [raised |-> TRUE, text |-> ""]
Returned(reply_text) == [raised |-> FALSE, text |-> reply_text]

\* _gemini_rewrite_bullet / _llm_rewrite_bullet (lines 293-332, 335-388): the
\* reply is what the external model does, raise or answer with a text
llm_rewrite_bullet(bullet, reply) ==
    IF reply.raises THEN Raised
    ELSE Call(LAMBDA rewritten : IF validate_rewrite(bullet, rewritten)
                                 THEN Returned(rewritten)
                                 ELSE Returned(bullet),
              clean_bullet_reply(reply.text))

\* verb_replacements, in the order of the dict (lines 396-409)
VERB_REPLACEMENTS == <<
    <<"responsible for", "Managed">>, <<"worked on", "Developed">>,
    <<"helped with", "Contributed to">>, <<"involved in", "Participated in">>,
    <<"participated in", "Contributed to">>, <<"did", "Executed">>,
    <<"made", "Created">>, <<"got", "Achieved">>, <<"used", "Utilized">>,
    <<"wanted to", "Aimed to">>, <<"was part of", "Collaborated on">>,
    <<"handled", "Managed">> >>

\* action_verbs of _rule_based_bullet, lowercased (lines 418-426)
RULE_ACTION_VERBS ==
    {"developed", "led", "created", "built", "designed", "implemented",
     "managed", "achieved", "delivered", "engineered", "architected",
     "optimized", "streamlined", "spearheaded", "executed", "utilized",
     "deployed"}

\* s.startswith(prefix)
str_startswith(s, prefix) ==
    Len(s) >= Len(prefix) /\ SubSeq(s, 1, Len(prefix)) = prefix

\* s.split()[0] if s.split() else ""
first_word(s) ==
    LET t == str_strip(s)
        stop == {i \in 1..Len(t) : Char(t, i) \in SpaceSet}
    IN  IF stop = {} THEN t ELSE SubSeq(t, 1, SetMin(stop) - 1)

\* s[0].lower() + s[1:], s[0].upper() + s[1:]
lower_first(s) == lower_char(Char(s, 1)) \o SubSeq(s, 2, Len(s))
upper_first(s) == upper_char(Char(s, 1)) \o SubSeq(s, 2, Len(s))

\* _rule_based_bullet(bullet, keywords): lines 391-444; keywords is the set in
\* the order of its iteration
\* lines 412-444 of _rule_based_bullet: b1 is the bullet after the verb
\* replacement
strengthen(b1, bullet_lower, keywords) ==
    LET starts_with_action == str_lower(first_word(b1)) \in RULE_ACTION_VERBS
        named == SelectSeq(keywords,
                     LAMBDA kw : str_contains(bullet_lower, str_lower(kw)))
    IN  Call(LAMBDA b2 : IF b2 # "" THEN upper_first(b2) ELSE b2,
             IF starts_with_action THEN b1
             ELSE Call(LAMBDA found :
                           IF found # <<>>
                           THEN "Utilized " \o found[1] \o " expertise to "
                                \o lower_first(b1)
                           ELSE IF b1 # "" THEN "Developed " \o lower_first(b1)
                           ELSE b1,
                       named))

\* lines 393-415 of _rule_based_bullet
replace_weak_verb(bullet, bullet_lower) ==
    Call(LAMBDA weak :
             IF weak = {} THEN bullet
             ELSE VERB_REPLACEMENTS[SetMin(weak)][2]
                  \o SubSeq(bullet, Len(VERB_REPLACEMENTS[SetMin(weak)][1]) + 1,
                            Len(bullet)),
         {n \in 1..Len(VERB_REPLACEMENTS) :
             str_startswith(bullet_lower, VERB_REPLACEMENTS[n][1])})

rule_based_bullet_of(bullet, bullet_lower, keywords) ==
    Call(LAMBDA b1 : strengthen(b1, bullet_lower, keywords),
         replace_weak_verb(bullet, bullet_lower))
rule_based_bullet(bullet, keywords) ==
    Call(LAMBDA bullet_lower : rule_based_bullet_of(bullet, bullet_lower, keywords),
         str_lower(bullet))

\* lines 272-290 of _rewrite_bullet, for the stripped bullet
rewrite_stripped(bullet, call, keywords) ==
    Call(LAMBDA gemini :
             IF ~gemini.raised THEN gemini.text
             ELSE Call(LAMBDA openai :
                           IF ~openai.raised THEN openai.text
                           ELSE rule_based_bullet(bullet, keywords),
                       IF call.openai
                       THEN llm_rewrite_bullet(bullet, call.openai_reply)
                       ELSE Raised),
         IF call.gemini THEN llm_rewrite_bullet(bullet, call.gemini_reply)
         ELSE Raised)

\* _rewrite_bullet(bullet, target_keywords): lines 267-290
rewrite_bullet(call, keywords) ==
    Call(LAMBDA bullet : rewrite_stripped(bullet, call, keywords),
         str_strip(call.original))

\* r'(\d+)\s*(?:\+)?\s*years?', re.I (line 213)
YEARS == Cat(<<Rep(DigitSet, 1), ws0, Opt(Lit("+")), ws0, Lit("year"),
               Opt(Lit("s"))>>)

\* r'\d+\s*\+?\s*years?\s*(of\s+)?experience\.?', re.I (line 227)
YEARS_OF_EXPERIENCE ==
    Cat(<<Rep(DigitSet, 1), ws0, Opt(Lit("+")), ws0, Lit("year"), Opt(Lit("s")),
          ws0, Opt(Cat(<<Lit("of"), ws1>>)), Lit("experience"), Opt(Lit("."))>>)

\* _rule_based_summary(summary, keywords): lines 207-238
\* lines 218-233 of _rule_based_summary: the summary of a text in which
\* years_match found years of experience
summary_with_years(clean, years_match, relevant) ==
    LET at == years_match[1][1]
        years == SubSeq(clean, at, at + RunLen(clean, at, DigitSet) - 1)
        keyword_str == IF Len(relevant) > 1
                       THEN str_join(", ", SubSeq(relevant, 1, Len(relevant) - 1))
                            \o " and " \o relevant[Len(relevant)]
                       ELSE relevant[1]
    IN  Call(LAMBDA base :
                 IF base # ""
                 THEN "Results-driven professional with " \o years
                      \o "+ years of experience specializing in " \o keyword_str
                      \o ". " \o base
                 ELSE "Results-driven professional with " \o years
                      \o "+ years of experience in " \o keyword_str \o ".",
             str_strip(re_sub(YEARS_OF_EXPERIENCE, "", clean, TRUE)))

rule_based_summary_of(clean, keywords) ==
    Call(LAMBDA years_match :
             IF keywords # <<>> /\ years_match # <<>>
             THEN summary_with_years(clean, years_match, Slice(keywords, 3))
             ELSE IF clean # "" /\ ~str_endswith(clean, ".") THEN clean \o "."
             ELSE clean,
         FindSpans(YEARS, clean, TRUE))
rule_based_summary(summary, keywords) ==
    Call(LAMBDA clean : rule_based_summary_of(clean, keywords),
         str_strip(re_sub(ws1, " ", summary, FALSE)))

\* _gemini_rewrite_summary / _llm_rewrite_summary (lines 108-148, 151-204)
llm_rewrite_summary(summary, keywords, reply) ==
    IF reply.raises THEN rule_based_summary(summary, keywords)
    ELSE str_strip_chars(str_strip(reply.text), {"\"", "'"})

\* _rewrite_summary(summary, jd_data, gaps): lines 92-105
rewrite_summary(call, jd) ==
    LET target_keywords == Slice(jd.keywords.primary, 5)
    IN  IF call.gemini
        THEN llm_rewrite_summary(call.original, target_keywords, call.gemini_reply)
        ELSE IF call.openai
        THEN llm_rewrite_summary(call.original, target_keywords, call.openai_reply)
        ELSE rule_based_summary(call.original, target_keywords)

\* report before a score was calculated
NoReport == [score |-> 0,
             breakdown |-> [keywords |-> 0, sections |-> 0, format |-> 0,
                            quality |-> 0],
             improvements |-> <<>>, remaining_gaps |-> <<>>]

\* gaps before a gap analysis ran
NoGaps == [critical |-> <<>>, optional |-> <<>>, weak_bullets |-> <<>>,
           matched_skills |-> <<>>, missing_count |-> 0]

\* jd_data before a JD was extracted
NoJD == [role |-> "", seniority |-> "", hard_skills |-> <<>>,
         keywords |-> [primary |-> <<>>, secondary |-> <<>>]]

\* the body of a response before any request was served, and of a response
\* whose body the model does not look at
NoBody == [detail |-> ""]

\* the last request before any request was made
NoRequest == [op |-> ""]

\* the inputs of a rewrite call before any call was made
NoReply == [raises |-> FALSE, text |-> ""]
NoRewrite == [kind |-> "", original |-> "", gemini |-> FALSE, openai |-> FALSE,
              gemini_reply |-> NoReply, openai_reply |-> NoReply]

\* target_keywords of _rewrite_experience (lines 246-247), as iterated
bullet_keywords(jd, seed) ==
    iterate_set(SeqSet(jd.keywords.primary) \cup SeqSet(jd.hard_skills), seed)

\* r'^\d+\.' (line 255)
NUMBERED == Cat(<<BOL, Rep(DigitSet, 1), Lit(".")>>)

\* r'^[-*]\s*|\d+\.\s*' with BULLET for the second bullet sign (line 257)
BULLET_PREFIX ==
    Alt(<<Cat(<<BOL, Cls({"-", BULLET}), ws0>>),
          Cat(<<Rep(DigitSet, 1), Lit("."), ws0>>)>>)

\* lines 253-262 of _rewrite_experience, for a line that is stripped and not empty
rewrite_line(line, jd, seed, llm) ==
    IF str_startswith(line, "-") \/ re_match(NUMBERED, line, FALSE)
    THEN "- " \o Call(LAMBDA clean_line :
                          rewrite_bullet([llm EXCEPT !.original = clean_line],
                                         bullet_keywords(jd, seed)),
                      re_sub(BULLET_PREFIX, "", line, FALSE))
    ELSE line

\* _rewrite_experience(experience, jd_data, gaps): lines 241-264; llm tells
\* which external models are configured and what they answer
rewrite_experience(experience, jd, seed, llm) ==
    LET lines == str_split(experience, "\n")
        stripped == [n \in 1..Len(lines) |-> str_strip(lines[n])]
        kept == SelectSeq(stripped, LAMBDA line : line # "")
    IN  str_join("\n", Call(LAMBDA all : [n \in 1..Len(all) |->
                                            rewrite_line(all[n], jd, seed, llm)],
                            kept))

\* r'[\w\s\+#\.]+' (line 475)
SKILL_ITEM == Rep(WordSet \cup SpaceSet \cup {"+", "#", "."}, 1)

\* lines 476-489 of _rewrite_skills
prioritize(skill_list, target_skills) ==
    Call(LAMBDA matching :
             matching \o SelectSeq(skill_list, LAMBDA sk : ~InSeq(sk, matching)),
         SelectSeq(skill_list, LAMBDA sk : str_lower(sk) \in target_skills))

\* _rewrite_skills(skills, jd_data): lines 472-489
rewrite_skills(skills, jd) ==
    LET found == re_findall(SKILL_ITEM, skills, FALSE)
        target_skills == {str_lower(t) : t \in SeqSet(jd.hard_skills)
                                              \cup SeqSet(jd.keywords.primary)}
    IN  str_join(", ",
            Call(LAMBDA skill_list : prioritize(skill_list, target_skills),
                 SelectSeq(Call(LAMBDA all : [n \in 1..Len(all) |-> str_strip(all[n])],
                                found),
                           LAMBDA sk : Len(sk) > 1)))

\* _generate_summary(sections, jd_data): lines 492-501
generate_summary(secs, jd) ==
    "Experienced " \o jd.role \o " with expertise in "
    \o Slice(GetOr(secs, "skills", ""), 100) \o "..."

\* lines 79-87 of rewrite_resume: projects and certifications are kept as is
keep_optional(optimized, secs) ==
    LET projects == GetOr(secs, "projects", "")
        certifications == GetOr(secs, "certifications", "")
        with_projects == IF projects # "" THEN Put(optimized, "projects", projects)
                         ELSE optimized
    IN  IF certifications # ""
        THEN Put(with_projects, "certifications", certifications)
        ELSE with_projects

\* rewrite_resume(sections, jd_data, gaps): lines 33-89
rewrite_resume(secs, jd, seed, llm) ==
    LET summary == GetOr(secs, "summary", "")
        experience == GetOr(secs, "experience", "")
        skills == GetOr(secs, "skills", "")
    IN  Call(LAMBDA optimized : keep_optional(optimized, secs),
             [keys |-> <<"summary", "experience", "skills", "education">>,
              val |-> <<IF summary # ""
                        THEN rewrite_summary([llm EXCEPT !.original = summary], jd)
                        ELSE generate_summary(secs, jd),
                        IF experience # ""
                        THEN rewrite_experience(experience, jd, seed, llm)
                        ELSE "",
                        IF skills # "" THEN rewrite_skills(skills, jd) ELSE "",
                        GetOr(secs, "education", "")>>])

----------------------------------------------------------------------------
(* api/resume.py *)

\* settings.max_file_size_mb (config.py)
max_file_size_mb == 10

\* no file part in the request
NoFile == [given |-> FALSE, filename |-> "", size |-> 0, extracted |-> ""]

\* f"res-{uuid.uuid4().hex[:8]}": an id no stored resume has
new_resume_id(store) == "res-" \o str_int(Len(store.keys) + 1)

\* a response that leaves the store as it is
rejected(store, status) == [store |-> store, status |-> status]

\* the entry of lines 78-84
stored_resume(raw_text) ==
    [raw_text |-> raw_text, sections |-> detect_sections(raw_text)]

\* upload_resume(file, text): lines 39-90.  A text that is None is given as
\* "" (both are falsy); file.extracted is the text the parser returns for the
\* file's content.
upload_resume(store, file, txt) ==
    LET known == str_endswith(str_lower(file.filename), ".pdf")
                 \/ str_endswith(str_lower(file.filename), ".txt")
        raw_text == IF file.given THEN file.extracted ELSE str_strip(txt)
    IN  IF ~file.given /\ txt = "" THEN rejected(store, 400)
        ELSE IF file.given /\ file.size > max_file_size_mb * 1024 * 1024
        THEN rejected(store, 400)
        ELSE IF file.given /\ ~known THEN rejected(store, 400)
        ELSE IF raw_text = "" THEN rejected(store, 400)
        ELSE [store |-> Put(store, new_resume_id(store), stored_resume(raw_text)),
              status |-> 200]

\* update_sections(resume_id, sections): lines 105-112
update_sections(store, resume_id, secs) ==
    IF ~HasKey(store, resume_id) THEN rejected(store, 404)
    ELSE [store |-> Put(store, resume_id,
                        [Get(store, resume_id) EXCEPT !.sections = secs]),
          status |-> 200]

----------------------------------------------------------------------------
(* api/jd.py *)

\* noise_patterns of _clean_jd (lines 99-105); each is (?i) and starts with ^
NOISE_PATTERNS == <<
    Alt(<<Lit("benefits"), Lit("perks"), Lit("what we offer")>>),
    Alt(<<Lit("about us"), Lit("about the company"), Lit("who we are")>>),
    Alt(<<Lit("equal opportunity"), Lit("eeo"), Lit("diversity")>>),
    Alt(<<Lit("how to apply"), Lit("to apply")>>),
    Alt(<<Lit("salary"), Lit("compensation"), Lit("pay range")>>) >>

\* r'^[A-Z][A-Za-z\s]+:?\s*$' (line 115)
MAJOR_SECTION ==
    Cat(<<Cls(UpperSet), Rep(AlphaSet \cup SpaceSet, 1), Opt(Lit(":")), ws0>>)

\* some noise pattern matches the stripped line (lines 109-112, 116)
enters_noise(line) ==
    \E k \in 1..Len(NOISE_PATTERNS) : re_match(NOISE_PATTERNS[k], str_strip(line), TRUE)

resets_skip_never(line) == FALSE
\* the line is a new major section that is no noise header (lines 115-117)
resets_skip(line) ==
    /\ re_match_end(MAJOR_SECTION, str_strip(line), FALSE)
    /\ Len(str_strip(line)) < 50
    /\ ~enters_noise(line)

\* '\n'.join(cleaned_lines).strip() (line 122)
joined(cleaned_lines) == str_strip(str_join("\n", cleaned_lines))

\* _clean_jd(text): lines 87-122
clean_jd(txt) ==
    LET lines == str_split(txt, "\n")
        \* skip_section after the line n was looked at
        skip_section[n \in 0..Len(lines)] ==
            IF n = 0 THEN FALSE
            ELSE IF resets_skip(lines[n]) THEN FALSE
            ELSE skip_section[n - 1] \/ enters_noise(lines[n])
        kept == SelectSeq([n \in 1..Len(lines) |-> n], LAMBDA n : ~skip_section[n])
    IN  joined([k \in 1..Len(kept) |-> lines[kept[k]]])

\* f"jd-{uuid.uuid4().hex[:8]}": an id no stored JD has
new_jd_id(store) == "jd-" \o str_int(Len(store.keys) + 1)

\* the entry of lines 63-67: {"raw_text": ..., "cleaned_text": ..., **intelligence}
jd_entry(raw_text, cleaned_jd, seed) ==
    [raw_text |-> raw_text, cleaned_text |-> cleaned_jd]
    @@ extract_jd_intelligence(cleaned_jd, seed)

\* lines 57-67 of extract_jd
stored_jd(raw_text, seed) ==
    Call(LAMBDA cleaned_jd : jd_entry(raw_text, cleaned_jd, seed),
         clean_jd(raw_text))

\* extract_jd(input_data): lines 35-72.  A text or url that is None is given
\* as "" (both are falsy).
extract_jd(store, input_data, seed) ==
    IF input_data.text = "" /\ input_data.url = "" THEN rejected(store, 400)
    ELSE IF input_data.url # "" THEN rejected(store, 400)
    ELSE IF Len(str_strip(input_data.text)) < 100 THEN rejected(store, 400)
    ELSE [store |-> Put(store, new_jd_id(store),
                        stored_jd(str_strip(input_data.text), seed)),
          status |-> 200]

\* what a handler that reads a store answers: the status code and the body
answer(status, body) == [status |-> status, body |-> body]

\* get_jd(jd_id): lines 75-84
get_jd(store, jd_id) ==
    IF ~HasKey(store, jd_id) THEN answer(404, [detail |-> "JD not found"])
    ELSE answer(200, [jd_id |-> jd_id] @@ Get(store, jd_id))

\* get_resume(resume_id): resume.py lines 93-102
get_resume(store, resume_id) ==
    IF ~HasKey(store, resume_id) THEN answer(404, [detail |-> "Resume not found"])
    ELSE answer(200, [resume_id |-> resume_id] @@ Get(store, resume_id))

----------------------------------------------------------------------------
(* api/optimize.py, api/job.py, api/download.py *)

\* A JSON value of a request body that is not a string (null) is written
\* JSON_NULL; no text of the inputs is this string.
JSON_NULL == "<null>"

\* f"job-{uuid.uuid4().hex[:8]}": an id no stored job has
new_job_id(jobs) == "job-" \o str_int(Len(jobs.keys) + 1)

\* a response of a handler: what it leaves in its store, the status code, the
\* body, and the job entries that were read on its way
response(store, status, body, seen) ==
    [store |-> store, status |-> status, body |-> body, seen |-> seen]
\* raise HTTPException(status, detail)
http_exception(store, status, detail) ==
    response(store, status, [detail |-> detail], <<>>)

\* ' '.join(sections.values()) raises TypeError at the first value that is
\* no str (gap_analyzer.py line 57)
join_raises(secs) == \E n \in 1..Len(secs.val) : secs.val[n] = JSON_NULL
join_error(secs) ==
    "sequence item "
    \o str_int(SetMin({n \in 1..Len(secs.val) : secs.val[n] = JSON_NULL}) - 1)
    \o ": expected str instance, NoneType found"

failed_job_in_place(current, message) ==
    [status |-> "failed", error |-> message] @@ current
\* the entry of lines 93-96, which replaces the job's current entry
failed_job(current, message) == [status |-> "failed", error |-> message]

\* the entry of lines 80-90
completed_entry(optimized, score_result, gaps_) ==
    [status |-> "completed", progress |-> 100, step |-> "Complete",
     result |-> [optimized_resume |-> optimized,
                 ats_score |-> score_result.score,
                 improvements |-> score_result.improvements,
                 remaining_gaps |-> gaps_.optional]]
\* lines 77-90 of start_optimization
completed_job(optimized, jd_data_, gaps_, seed) ==
    Call(LAMBDA score_result : completed_entry(optimized, score_result, gaps_),
         calculate_ats_score(optimized, jd_data_, seed))

\* the entries start_optimization assigns to job_store[job_id], in the order
\* of the assignments (lines 46-96); no external model is configured
job_writes(resume_data, jd_data_, request, seed) ==
    LET started == [status |-> "processing", progress |-> 0,
                    step |-> "Starting optimization",
                    resume_id |-> request.resume_id, jd_id |-> request.jd_id]
        at_gaps == [started EXCEPT !.step = "Analyzing gaps"]
        at_rewrite == [at_gaps EXCEPT !.progress = 20, !.step = "Rewriting resume"]
        at_score == [at_rewrite EXCEPT !.progress = 70,
                                       !.step = "Calculating ATS score"]
        gaps_ == analyze_gaps(resume_data.sections, jd_data_, seed)
    IN  IF join_raises(resume_data.sections)
        THEN <<started, at_gaps, [at_gaps EXCEPT !.progress = 20],
               failed_job([at_gaps EXCEPT !.progress = 20],
                          join_error(resume_data.sections))>>
        ELSE <<started, at_gaps, [at_gaps EXCEPT !.progress = 20],
               at_rewrite, [at_rewrite EXCEPT !.progress = 40],
               [at_rewrite EXCEPT !.progress = 70],
               at_score, [at_score EXCEPT !.progress = 90],
               Call(LAMBDA optimized :
                        completed_job(optimized, jd_data_, gaps_, seed),
                    rewrite_resume(resume_data.sections, jd_data_, seed,
                                   NoRewrite))>>

observable_all(writes) == writes
\* The entries of the job that another handler, or the response, can read:
\* start_optimization has no await between its assignments (lines 33-101),
\* so the event loop runs no other handler before it returns.
observable(writes) == <<writes[Len(writes)]>>

\* lines 39-101 of start_optimization, whose assignments to job_store[job_id]
\* are writes
accepted(jobs, writes) ==
    LET job_id == new_job_id(jobs)
        final == writes[Len(writes)]
    IN  response(Put(jobs, job_id, final), 200,
                 [job_id |-> job_id, status |-> final.status],
                 observable(writes))

start_optimization_eager(resumes, jds, jobs, request, seed) ==
    LET started == [status |-> "failed", error |-> "not found"]
    IN  IF ~HasKey(resumes, request.resume_id)
        THEN response(Put(jobs, new_job_id(jobs), started), 404,
                      [detail |-> "Resume not found"], <<>>)
        ELSE IF ~HasKey(jds, request.jd_id)
        THEN response(Put(jobs, new_job_id(jobs), started), 404,
                      [detail |-> "JD not found"], <<>>)
        ELSE Call(LAMBDA writes : accepted(jobs, writes),
                  Call(LAMBDA found : job_writes(found.resume_data, found.jd_data,
                                                 request, seed),
                       [resume_data |-> Get(resumes, request.resume_id),
                        jd_data |-> Get(jds, request.jd_id)]))
\* start_optimization(request): lines 28-101
start_optimization(resumes, jds, jobs, request, seed) ==
    IF ~HasKey(resumes, request.resume_id)
    THEN http_exception(jobs, 404, "Resume not found")
    ELSE IF ~HasKey(jds, request.jd_id)
    THEN http_exception(jobs, 404, "JD not found")
    ELSE Call(LAMBDA writes : accepted(jobs, writes),
              Call(LAMBDA found : job_writes(found.resume_data, found.jd_data,
                                             request, seed),
                   [resume_data |-> Get(resumes, request.resume_id),
                    jd_data |-> Get(jds, request.jd_id)]))

\* get_job_status(job_id): job.py lines 12-25
get_job_status(jobs, job_id) ==
    IF ~HasKey(jobs, job_id) THEN http_exception(jobs, 404, "Job not found")
    ELSE LET job == Get(jobs, job_id)
         IN  response(jobs, 200,
                      [job_id |-> job_id,
                       status |-> job.status,
                       progress |-> IF "progress" \in DOMAIN job
                                    THEN job.progress ELSE 0,
                       step |-> IF "step" \in DOMAIN job THEN job.step ELSE ""],
                      <<job>>)

get_job_result_any_status(jobs, job_id) ==
    IF ~HasKey(jobs, job_id) THEN http_exception(jobs, 404, "Job not found")
    ELSE LET job == Get(jobs, job_id)
         IN  response(jobs, 200,
                      [job_id |-> job_id]
                      @@ (IF "result" \in DOMAIN job THEN job.result ELSE <<>>),
                      <<job>>)
\* get_job_result(job_id): job.py lines 28-42
get_job_result(jobs, job_id) ==
    IF ~HasKey(jobs, job_id) THEN http_exception(jobs, 404, "Job not found")
    ELSE LET job == Get(jobs, job_id)
         IN  IF job.status # "completed"
             THEN response(jobs, 400,
                           [detail |-> "Job not completed. Status: " \o job.status],
                           <<job>>)
             ELSE response(jobs, 200,
                           [job_id |-> job_id,
                            optimized_resume |-> job.result.optimized_resume,
                            ats_score |-> job.result.ats_score,
                            improvements |-> job.result.improvements,
                            remaining_gaps |-> job.result.remaining_gaps],
                           <<job>>)

\* download_resume(request): download.py lines 35-67.  The document is given
\* as what _generate_docx or _generate_pdf is called with.
download_resume(jobs, request) ==
    IF ~HasKey(jobs, request.job_id)
    THEN http_exception(jobs, 404, "Job not found")
    ELSE LET job == Get(jobs, request.job_id)
         IN  IF job.status # "completed"
             THEN response(jobs, 400,
                           [detail |-> "Job not completed. Status: " \o job.status],
                           <<job>>)
             ELSE response(jobs, 200,
                           [media_type |-> IF request.format = "docx"
                                           THEN "application/vnd.openxmlformats-officedocument.wordprocessingml.document"
                                           ELSE "application/pdf",
                            optimized_resume |-> job.result.optimized_resume,
                            ats_score |-> job.result.ats_score],
                           <<job>>)

----------------------------------------------------------------------------
(* Inputs of the checks *)

\* the longest tail of lines that follows a resume's opening
MaxLines == 3

\* lines a resume is made of: blank, header, header-like and content lines
ResumeLines == {"", " ", "SUMMARY", " Work Experience", "Skills:", "Projects",
                "Experienced in Java ", "Acme 2019", " led team "}

\* openings: nothing, or six plain lines
ResumeOpenings == {"", "one\ntwo\nthree\nfour\nfive\nsix\n"}

LineSeqs == UNION {[1..n -> ResumeLines] : n \in 0..MaxLines}

ResumeTexts == {o \o str_join("\n", ls) : o \in ResumeOpenings, ls \in LineSeqs}

----------------------------------------------------------------------------
(* detect_sections applied to a resume text *)

\* the variables of the functions a specification does not run
SegIdle   == text = "" /\ sections = EmptyDict
JDIdle    == jd_text = "" /\ hash_seed = 0 /\ jd_data = NoJD
ScoreIdle == /\ resume_sections = EmptyDict
             /\ appended = EmptyDict
             /\ report = NoReport
             /\ report_appended = NoReport
GapIdle   == gaps = NoGaps
ApiIdle   == resume_store = EmptyDict /\ api_response = 0
RewriteIdle == rewrite_call = NoRewrite /\ rewrite_result = ""
PipeIdle  == /\ cleaned_text = ""
             /\ optimized_sections = EmptyDict
             /\ report_optimized = NoReport
ServerIdle == /\ jd_store = EmptyDict
              /\ job_store = EmptyDict
              /\ api_request = NoRequest
              /\ api_body = NoBody
              /\ seen_jobs = <<>>

InitSeg ==
    /\ pc = "call"
    /\ text \in ResumeTexts
    /\ sections = EmptyDict
    /\ JDIdle /\ ScoreIdle /\ GapIdle /\ ApiIdle /\ RewriteIdle
    /\ PipeIdle /\ ServerIdle

DetectSections ==
    /\ pc = "call"
    /\ pc' = "return"
    /\ sections' = detect_sections(text)
    /\ UNCHANGED <<text, jdVars, scoreVars, gapVars, apiVars, rewriteVars, pipeVars, serverVars>>

NextSeg == DetectSections

SpecSeg == InitSeg /\ [][NextSeg]_vars

----------------------------------------------------------------------------
(* extract_jd_intelligence applied to a JD text *)

\* the longest tail of words that follows a JD's opening
MaxJDWords == 2
\* the largest hash seed a process may start with
MaxSeed == 1

SkillRun == "sql css php vue aws gcp git java rust ruby html"
\* openings: nothing, a title line, eleven skills named once, the same twice
JDOpenings == {"", "Python developer: python, java\n", SkillRun \o "\n",
               SkillRun \o "\n" \o SkillRun \o "\n"}
JDWords == {"Senior", "junior", "architect", "mid-level", "Python", "node.js",
            "sr."}
WordSeqs == UNION {[1..n -> JDWords] : n \in 0..MaxJDWords}
JDTexts == {o \o str_join(" ", ws) : o \in JDOpenings, ws \in WordSeqs}
HashSeeds == 0..MaxSeed

InitJD ==
    /\ pc = "call"
    /\ jd_text \in JDTexts
    /\ hash_seed \in HashSeeds
    /\ jd_data = NoJD
    /\ SegIdle /\ ScoreIdle /\ GapIdle /\ ApiIdle /\ RewriteIdle
    /\ PipeIdle /\ ServerIdle

ExtractJD ==
    /\ pc = "call"
    /\ pc' = "return"
    /\ jd_data' = extract_jd_intelligence(jd_text, hash_seed)
    /\ UNCHANGED <<segVars, jd_text, hash_seed, scoreVars, gapVars, apiVars, rewriteVars, pipeVars, serverVars>>

NextJD == ExtractJD

SpecJD == InitJD /\ [][NextJD]_vars

----------------------------------------------------------------------------
(* calculate_ats_score applied to a SectionMap and a JDIntelligence, and then *)
(* to the same SectionMap with the JD's primary keywords appended to skills   *)

RECURSIVE Repeat(_, _)
Repeat(s, n) ==
    IF n = 0 THEN ""
    ELSE IF n % 2 = 1 THEN s \o Repeat(s, n - 1)
    ELSE LET half == Repeat(s, n \div 2) IN half \o half

Summaries == {"", "python dev", "Engineer [Image] ^", Repeat("lorem ", 200),
              Repeat("lorem ", 1501)}
Experiences == {"", "Worked on apis and services",
                "- Led team\n- managed work\n~ x",
                "Acme\n- Led 5 users\n- Built 20%\n- Created $3,000\n- Managed 2 projects\n- Designed 9%"}
SkillSections == {"", "spring", "Python, AWS and more tools"}
Educations == {"", "boot camp graduate", "BS in Computer Science 2015"}

\* the SectionMaps rewrite_resume hands to the scorer: four keys, in this order
SectionMaps ==
    {[keys |-> REQUIRED_SECTIONS, val |-> <<su, ex, sk, ed>>] :
        su \in Summaries, ex \in Experiences, sk \in SkillSections, ed \in Educations}

\* the same without an experience key
SectionMapsWithoutExperience ==
    {[keys |-> <<"summary", "skills", "education">>, val |-> <<"python dev", sk, "">>] :
        sk \in SkillSections}

ScoreJDTexts == {"", "python python spring boot", "Python developer: python, java\n"}

\* a JD that names fifty skills of the lexicon once, and resumes that name the
\* last twenty-nine of them, all of them, or none
FirstSkills == "python java javascript typescript rust ruby php swift kotlin scala html css react angular vue express django flask fastapi spring rails"
LastSkills == "laravel nextjs postgresql mysql mongodb redis elasticsearch dynamodb oracle sqlite cassandra neo4j aws azure gcp docker kubernetes k8s terraform ansible jenkins gitlab pandas numpy tensorflow pytorch spark hadoop kafka"
FiftySkillsJD == FirstSkills \o " " \o LastSkills
FiftySkillsMaps ==
    {[keys |-> REQUIRED_SECTIONS, val |-> <<"", "", sk, "">>] :
        sk \in {"", LastSkills, FiftySkillsJD}}

\* the SectionMap with every primary keyword appended to its skills section
append_primary(secs, jd) ==
    Put(secs, "skills",
        Get(secs, "skills")
        \o Concat([n \in 1..Len(jd.keywords.primary) |->
                     " " \o jd.keywords.primary[n]], 1, Len(jd.keywords.primary)))

InitScore ==
    /\ pc = "call"
    /\ SegIdle /\ GapIdle /\ ApiIdle /\ RewriteIdle
    /\ PipeIdle /\ ServerIdle
    /\ hash_seed \in HashSeeds
    /\ \/ /\ jd_text \in ScoreJDTexts
          /\ jd_data = extract_jd_intelligence(jd_text, hash_seed)
          /\ resume_sections \in SectionMaps \cup SectionMapsWithoutExperience
       \/ /\ jd_text = FiftySkillsJD
          /\ jd_data = extract_jd_intelligence(jd_text, hash_seed)
          /\ resume_sections \in FiftySkillsMaps
    /\ appended = EmptyDict
    /\ report = NoReport
    /\ report_appended = NoReport

CalculateScore ==
    /\ pc = "call"
    /\ pc' = "return"
    /\ report' = calculate_ats_score(resume_sections, jd_data, hash_seed)
    /\ UNCHANGED <<segVars, jdVars, resume_sections, appended, report_appended,
                   gapVars, apiVars, rewriteVars, pipeVars, serverVars>>

ScoreAppended ==
    /\ pc = "return"
    /\ pc' = "appended"
    /\ appended' = append_primary(resume_sections, jd_data)
    /\ report_appended' =
           calculate_ats_score(append_primary(resume_sections, jd_data), jd_data,
                               hash_seed)
    /\ UNCHANGED <<segVars, jdVars, resume_sections, report, gapVars, apiVars, rewriteVars, pipeVars, serverVars>>

NextScore == CalculateScore \/ ScoreAppended

SpecScore == InitScore /\ [][NextScore]_vars

----------------------------------------------------------------------------
(* analyze_gaps applied to a SectionMap and a JDIntelligence *)

\* sixteen skills that both the JD lexicon and the resume patterns know
SkillRun16 == SkillRun \o " react redis linux flask azure"

GapJDTexts == {"", "Python developer: python, java\n", SkillRun \o "\n",
               SkillRun \o "\n" \o SkillRun \o "\n",
               "python python\n" \o SkillRun16,
               "Kotlin developer: kotlin, swift, aws\n"}

StrongBullet == "Led a team of 12 engineers and increased release throughput by 40%"

GapSummaries == {"", "python dev"}
GapExperiences ==
    {"",
     "- " \o StrongBullet,
     "Acme Corp\n- " \o StrongBullet \o "\n- Helped\n~ The legacy billing system was migrated to the cloud by our team and then extended with reporting, alerting and auditing features\n2. Worked on internal tools",
     "Beta Inc, platform team 2019\n- worked on the api layer\n- worked on the web layer\n- worked on the data layer\n~ worked on the test layer\n3. worked on the build layer\n- worked on the docs layer",
     "Developed 3x faster builds\n\n-   Ledger was reconciled daily for 20 customers in the finance department"}
GapSkillSections == {"", "Python, AWS and more tools", SkillRun16,
                     "JavaScript, C++, Node.js, nodejs and REST api",
                     "Kotlin and Swift"}
GapEducations == {"", "boot camp graduate"}

GapSectionMaps ==
    {[keys |-> REQUIRED_SECTIONS, val |-> <<su, ex, sk, ed>>] :
        su \in GapSummaries, ex \in GapExperiences, sk \in GapSkillSections,
        ed \in GapEducations}

InitGap ==
    /\ pc = "call"
    /\ SegIdle /\ ApiIdle /\ RewriteIdle
    /\ PipeIdle /\ ServerIdle
    /\ jd_text \in GapJDTexts
    /\ hash_seed \in HashSeeds
    /\ jd_data = extract_jd_intelligence(jd_text, hash_seed)
    /\ resume_sections \in GapSectionMaps
    /\ appended = EmptyDict
    /\ report = NoReport
    /\ report_appended = NoReport
    /\ gaps = NoGaps

AnalyzeGaps ==
    /\ pc = "call"
    /\ pc' = "return"
    /\ gaps' = analyze_gaps(resume_sections, jd_data, hash_seed)
    /\ UNCHANGED <<segVars, jdVars, scoreVars, apiVars, rewriteVars, pipeVars, serverVars>>

NextGap == AnalyzeGaps

SpecGap == InitGap /\ [][NextGap]_vars

----------------------------------------------------------------------------
(* The resume registry: upload_resume and update_sections requests *)

\* the most resumes the registry is let to hold
MaxResumes == 2

UploadTexts == {"", "  ", " Jane Doe\nExperienced in Java ",
                "SUMMARY\nBackend developer\nSkills:\nPython, SQL\nProjects\nAcme 2019"}
UploadFiles ==
    {NoFile,
     [given |-> TRUE, filename |-> "CV.TXT", size |-> 2048,
      extracted |-> "Work Experience\nAcme 2019\n- led team"],
     [given |-> TRUE, filename |-> "cv.pdf", size |-> 2048, extracted |-> ""],
     [given |-> TRUE, filename |-> "cv.docx", size |-> 2048,
      extracted |-> "Jane Doe"],
     [given |-> TRUE, filename |-> "cv.pdf",
      size |-> max_file_size_mb * 1024 * 1024 + 1, extracted |-> "Jane Doe"]}
\* bodies of PUT /resume/{resume_id}/sections: any JSON object
SectionBodies ==
    {EmptyDict,
     [keys |-> <<"summary">>, val |-> <<"Edited summary">>],
     [keys |-> REQUIRED_SECTIONS,
      val |-> <<"Edited summary", "Acme 2019", "Python", "BS 2015">>],
     [keys |-> <<"hobbies", "skills">>, val |-> <<"chess", "Python">>]}
ResumeIds == {"res-" \o str_int(n) : n \in 1..(MaxResumes + 1)}

InitRegistry ==
    /\ pc = "serve"
    /\ resume_store = EmptyDict
    /\ api_response = 0
    /\ SegIdle /\ JDIdle /\ ScoreIdle /\ GapIdle /\ RewriteIdle
    /\ PipeIdle /\ ServerIdle

UploadResume ==
    \E file \in UploadFiles, txt \in UploadTexts :
        /\ Len(resume_store.keys) < MaxResumes
        /\ resume_store' = upload_resume(resume_store, file, txt).store
        /\ api_response' = upload_resume(resume_store, file, txt).status
        /\ UNCHANGED <<pc, segVars, jdVars, scoreVars, gapVars, rewriteVars, pipeVars, serverVars>>

UpdateSections ==
    \E resume_id \in ResumeIds, secs \in SectionBodies :
        /\ resume_store' = update_sections(resume_store, resume_id, secs).store
        /\ api_response' = update_sections(resume_store, resume_id, secs).status
        /\ UNCHANGED <<pc, segVars, jdVars, scoreVars, gapVars, rewriteVars, pipeVars, serverVars>>

NextRegistry == UploadResume \/ UpdateSections

SpecRegistry == InitRegistry /\ [][NextRegistry]_vars

----------------------------------------------------------------------------
(* _rewrite_bullet and _rewrite_summary applied to one bullet or summary, with *)
(* the external models configured or not and answering in any way             *)

BulletOriginals == {"", "worked on apis", "python scripts for reporting",
                    " Led migration of 3 services, cutting cost 20% "}
SummaryOriginals == {"Backend developer", "7 years experience",
                     "Engineer with 5+ years of experience.  Builds apis"}
ReplyTexts == {"- \"Developed REST apis\"",
               "Developed apis, improving latency by 50%",
               "Led migration of 3 services, cutting cost 20%",
               "Spearheaded the design, development and delivery of a company-wide reporting platform used by every analyst and manager"}
Replies == {[raises |-> TRUE, text |-> ""]}
           \cup {[raises |-> FALSE, text |-> t] : t \in ReplyTexts}
RewriteCalls ==
    {[kind |-> k, original |-> o, gemini |-> g, openai |-> a,
      gemini_reply |-> gr, openai_reply |-> ar] :
        k \in {"bullet"}, o \in BulletOriginals, g \in BOOLEAN, a \in BOOLEAN,
        gr \in Replies, ar \in Replies}
    \cup
    {[kind |-> k, original |-> o, gemini |-> g, openai |-> a,
      gemini_reply |-> gr, openai_reply |-> ar] :
        k \in {"summary"}, o \in SummaryOriginals, g \in BOOLEAN, a \in BOOLEAN,
        gr \in Replies, ar \in Replies}
RewriteJDTexts == {"", "python python java"}

InitRewrite ==
    /\ pc = "call"
    /\ SegIdle /\ ScoreIdle /\ GapIdle /\ ApiIdle
    /\ PipeIdle /\ ServerIdle
    /\ jd_text \in RewriteJDTexts
    /\ hash_seed \in HashSeeds
    /\ jd_data = extract_jd_intelligence(jd_text, hash_seed)
    /\ rewrite_call \in RewriteCalls
    /\ rewrite_result = ""

RewriteBullet ==
    /\ pc = "call"
    /\ rewrite_call.kind = "bullet"
    /\ pc' = "return"
    /\ rewrite_result' =
          rewrite_bullet(rewrite_call, bullet_keywords(jd_data, hash_seed))
    /\ UNCHANGED <<segVars, jdVars, scoreVars, gapVars, apiVars, rewrite_call,
                   pipeVars, serverVars>>

RewriteSummary ==
    /\ pc = "call"
    /\ rewrite_call.kind = "summary"
    /\ pc' = "return"
    /\ rewrite_result' = rewrite_summary(rewrite_call, jd_data)
    /\ UNCHANGED <<segVars, jdVars, scoreVars, gapVars, apiVars, rewrite_call,
                   pipeVars, serverVars>>

NextRewrite == RewriteBullet \/ RewriteSummary

SpecRewrite == InitRewrite /\ [][NextRewrite]_vars

----------------------------------------------------------------------------
(* _clean_jd applied to the stripped JD text, as extract_jd applies it *)

\* the longest tail of lines that follows a JD's opening
MaxCleanLines == 3

LongLine == "We are looking for an engineer who has worked on distributed systems and likes to write reliable code"
\* openings: a content line, or a noise section with that line in it
CleanOpenings == {LongLine \o "\n", "About us\n" \o LongLine \o "\n"}
\* blank, major-section, content and noise lines
NoisyLines == {"", " Requirements: ", "python and sql", "Benefits",
               "pay range: 100k", "Diversity matters"}
CleanLineSeqs == UNION {[1..n -> NoisyLines] : n \in 0..MaxCleanLines}
CleanTexts == {o \o str_join("\n", ls) : o \in CleanOpenings, ls \in CleanLineSeqs}

InitClean ==
    /\ pc = "call"
    /\ jd_text \in CleanTexts
    /\ hash_seed = 0
    /\ jd_data = NoJD
    /\ cleaned_text = ""
    /\ optimized_sections = EmptyDict
    /\ report_optimized = NoReport
    /\ SegIdle /\ ScoreIdle /\ GapIdle /\ ApiIdle /\ RewriteIdle /\ ServerIdle

\* lines 51-57 of extract_jd
CleanJD ==
    /\ pc = "call"
    /\ Len(str_strip(jd_text)) >= 100
    /\ pc' = "return"
    /\ cleaned_text' = clean_jd(str_strip(jd_text))
    /\ UNCHANGED <<segVars, jdVars, scoreVars, gapVars, apiVars, rewriteVars,
                   optimized_sections, report_optimized, serverVars>>

NextClean == CleanJD

SpecClean == InitClean /\ [][NextClean]_vars

----------------------------------------------------------------------------
(* The pipeline of start_optimization: analyze_gaps, rewrite_resume and       *)
(* calculate_ats_score, with no external model configured                     *)

OptimizeJDTexts == {"", "Python developer: python, java\n", SkillRun \o "\n"}
OptimizeSummaries == {"", "Backend developer",
                      "Engineer with 5+ years of experience.  Builds apis"}
OptimizeExperiences ==
    {"", "Acme Corp 2019\n- worked on apis in Python\n\n2. Led 3.5 teams\n~ helped with sql\n-python scripts for reporting"}
OptimizeSkillSections == {"", "SQL, Python and Flask; ci/cd, C++ | R"}
OptimizeEducations == {"", "BS 2015"}
OptimizeSectionMaps ==
    {[keys |-> REQUIRED_SECTIONS, val |-> <<su, ex, sk, ed>>] :
        su \in OptimizeSummaries, ex \in OptimizeExperiences,
        sk \in OptimizeSkillSections, ed \in OptimizeEducations}
    \cup {[keys |-> <<"summary", "projects", "certifications">>,
           val |-> <<su, "Side project in Java", "AWS certified">>] :
             su \in OptimizeSummaries}

InitOptimize ==
    /\ pc = "call"
    /\ jd_text \in OptimizeJDTexts
    /\ hash_seed \in HashSeeds
    /\ jd_data = extract_jd_intelligence(jd_text, hash_seed)
    /\ resume_sections \in OptimizeSectionMaps
    /\ appended = EmptyDict
    /\ report = NoReport
    /\ report_appended = NoReport
    /\ SegIdle /\ GapIdle /\ ApiIdle /\ RewriteIdle /\ PipeIdle /\ ServerIdle

\* lines 59-77 of start_optimization
Optimize ==
    /\ pc = "call"
    /\ pc' = "return"
    /\ gaps' = analyze_gaps(resume_sections, jd_data, hash_seed)
    /\ optimized_sections' = rewrite_resume(resume_sections, jd_data, hash_seed,
                                            NoRewrite)
    /\ report_optimized' = calculate_ats_score(optimized_sections', jd_data,
                                                hash_seed)
    /\ UNCHANGED <<segVars, jdVars, scoreVars, apiVars, rewriteVars, cleaned_text,
                   serverVars>>

NextOptimize == Optimize

SpecOptimize == InitOptimize /\ [][NextOptimize]_vars

----------------------------------------------------------------------------
(* The server: requests to upload a resume, edit its sections, extract a JD, *)
(* start an optimization, and read a job's status, result and document.      *)
(* Requests are served one at a time by the event loop.                      *)

\* the most resumes, and the most JDs, the stores are let to hold
MaxDocs == 1
\* the most jobs the job store is let to hold: a request that would add one
\* more is not made
MaxJobs == 1

ApiUploadTexts ==
    {"", "Jane Doe\nSummary\nBackend developer\nSkills:\nSQL and Flask\nExperience\nAcme 2019\n- worked on apis"}
\* bodies of PUT /resume/{resume_id}/sections: any JSON object, here one with
\* a null value
ApiSectionBodies ==
    {[keys |-> <<"summary", "skills">>, val |-> <<"Edited summary", JSON_NULL>>]}
ApiJDInputs ==
    {[text |-> "", url |-> ""],
     [text |-> "", url |-> "https://jobs.example/1"],
     [text |-> "  Python developer: python, sql  ", url |-> ""],
     [text |-> " Senior Python developer: python, sql and aws\n"
               \o "You build the services of our platform\n"
               \o "Benefits\nfree lunch\n", url |-> ""]}
ApiResumeIds == {"res-" \o str_int(n) : n \in 1..(MaxDocs + 1)}
JDIds  == {"jd-" \o str_int(n) : n \in 1..(MaxDocs + 1)}
JobIds == {"job-" \o str_int(n) : n \in 1..(MaxJobs + 1)}
DownloadFormats == {"docx", "pdf"}

InitApi ==
    /\ pc = "serve"
    /\ SegIdle /\ JDIdle /\ ScoreIdle /\ GapIdle /\ ApiIdle /\ RewriteIdle
    /\ PipeIdle /\ ServerIdle

\* what every request of the server leaves alone
ApiFrame == UNCHANGED <<pc, segVars, jdVars, scoreVars, gapVars, rewriteVars, pipeVars>>

\* a handler of the resume store answers request with r
ResumeResponse(request, r) ==
    /\ api_request' = request
    /\ resume_store' = r.store
    /\ api_response' = r.status
    /\ api_body' = NoBody
    /\ seen_jobs' = <<>>
    /\ UNCHANGED <<jd_store, job_store>>
    /\ ApiFrame

\* extract_jd answers request with r
JDResponse(request, r) ==
    /\ api_request' = request
    /\ jd_store' = r.store
    /\ api_response' = r.status
    /\ api_body' = NoBody
    /\ seen_jobs' = <<>>
    /\ UNCHANGED <<resume_store, job_store>>
    /\ ApiFrame

\* a handler of the job store answers request with r
JobResponse(request, r) ==
    /\ api_request' = request
    /\ job_store' = r.store
    /\ api_response' = r.status
    /\ api_body' = r.body
    /\ seen_jobs' = r.seen
    /\ UNCHANGED <<resume_store, jd_store>>
    /\ ApiFrame

\* a handler that reads a store answers request with r
ReadResponse(request, r) ==
    /\ api_request' = request
    /\ api_response' = r.status
    /\ api_body' = r.body
    /\ seen_jobs' = <<>>
    /\ UNCHANGED <<resume_store, jd_store, job_store>>
    /\ ApiFrame

PostResume ==
    \E txt \in ApiUploadTexts :
        /\ Len(resume_store.keys) < MaxDocs
        /\ ResumeResponse([op |-> "upload_resume", text |-> txt],
                          upload_resume(resume_store, NoFile, txt))

GetResume ==
    \E resume_id \in ApiResumeIds :
        ReadResponse([op |-> "get_resume", resume_id |-> resume_id],
                     get_resume(resume_store, resume_id))

PutSections ==
    \E resume_id \in ApiResumeIds, secs \in ApiSectionBodies :
        ResumeResponse([op |-> "update_sections", resume_id |-> resume_id,
                        sections |-> secs],
                       update_sections(resume_store, resume_id, secs))

PostJD ==
    \E input_data \in ApiJDInputs :
        /\ Len(jd_store.keys) < MaxDocs
        /\ JDResponse([op |-> "extract_jd", input_data |-> input_data],
                      extract_jd(jd_store, input_data, hash_seed))

GetJD ==
    \E jd_id \in JDIds :
        ReadResponse([op |-> "get_jd", jd_id |-> jd_id], get_jd(jd_store, jd_id))

PostOptimize ==
    \E resume_id \in ApiResumeIds, jd_id \in JDIds :
        /\ \/ Len(job_store.keys) < MaxJobs
           \/ ~HasKey(resume_store, resume_id)
           \/ ~HasKey(jd_store, jd_id)
        /\ JobResponse([op |-> "start_optimization", resume_id |-> resume_id,
                        jd_id |-> jd_id],
                       start_optimization(
                           resume_store, jd_store, job_store,
                           [resume_id |-> resume_id, jd_id |-> jd_id], hash_seed))

GetJobStatus ==
    \E job_id \in JobIds :
        JobResponse([op |-> "get_job_status", job_id |-> job_id],
                    get_job_status(job_store, job_id))

GetJobResult ==
    \E job_id \in JobIds :
        JobResponse([op |-> "get_job_result", job_id |-> job_id],
                    get_job_result(job_store, job_id))

PostDownload ==
    \E job_id \in JobIds, format \in DownloadFormats :
        JobResponse([op |-> "download_resume", job_id |-> job_id,
                     format |-> format],
                    download_resume(job_store,
                                    [job_id |-> job_id, format |-> format]))

NextApi == \/ PostResume \/ GetResume \/ PutSections \/ PostJD \/ GetJD
           \/ PostOptimize \/ GetJobStatus \/ GetJobResult \/ PostDownload

SpecApi == InitApi /\ [][NextApi]_vars

----------------------------------------------------------------------------
(* Claims about detect_sections (SpecSeg) *)

CANONICAL_KEYS ==
    {"summary", "experience", "skills", "education", "projects", "certifications"}

KeySet(d) == {d.keys[n] : n \in 1..Len(d.keys)}
TextLines == str_split(text, "\n")
\* the text has a header line for the section called name
HasHeaderFor(name) ==
    \E i \in 1..Len(TextLines) :
        /\ str_strip(TextLines[i]) # ""
        /\ InSeq(name, HeaderNames(str_strip(TextLines[i])))
HasHeaderLine == \E name \in CANONICAL_KEYS : HasHeaderFor(name)
\* the stripped non-blank lines of the text
CleanLines == NonBlank([i \in 1..Len(TextLines) |-> str_strip(TextLines[i])])

\* C1: detect_sections returns a map whose keys include the four required
\* sections and are among the six canonical ones, each key once; projects and
\* certifications are keys only when the text has a header line for them.
C1_KeysOfSectionMap ==
    pc = "return" =>
        /\ {"summary", "experience", "skills", "education"} \subseteq KeySet(sections)
        /\ KeySet(sections) \subseteq CANONICAL_KEYS
        /\ Cardinality(KeySet(sections)) = Len(sections.keys)
        /\ Len(sections.val) = Len(sections.keys)
        /\ \A name \in {"projects", "certifications"} :
              HasKey(sections, name) => HasHeaderFor(name)

C1_Witness ==
    /\ pc = "return"
    /\ HasKey(sections, "projects")
    /\ ~HasHeaderFor("summary")
    /\ Get(sections, "summary") = ""

\* the text has no header line, no year token and no technology term
Unstructured ==
    /\ ~HasHeaderLine
    /\ ~re_search(YEAR_PATTERN, text, FALSE)
    /\ ~re_search(TECH_PATTERN, text, TRUE)

\* C7, as claimed: for text without header line, year token and technology term
\* all four required keys map to the empty string.
C7_AllEmpty ==
    (pc = "return" /\ Unstructured) =>
        \A k \in {"summary", "experience", "skills", "education"} :
            HasKey(sections, k) /\ Get(sections, k) = ""

\* C7, amended: for such text the result has exactly the four required keys;
\* experience, skills and education map to the empty string and summary maps to
\* the first five non-blank lines, stripped and joined with newlines.
C7_SummaryKeepsFirstFive ==
    (pc = "return" /\ Unstructured) =>
        /\ KeySet(sections) = {"summary", "experience", "skills", "education"}
        /\ \A k \in {"experience", "skills", "education"} : Get(sections, k) = ""
        /\ Get(sections, "summary") =
              str_join("\n", [n \in 1..(IF Len(CleanLines) < 5 THEN Len(CleanLines)
                                        ELSE 5) |-> CleanLines[n]])

C7_Witness ==
    /\ pc = "return"
    /\ Unstructured
    /\ Len(CleanLines) > 5
    /\ Get(sections, "summary") = "one\ntwo\nthree\nfour\nfive"

\* C10: for text with a header line, for every marker the section it names maps
\* to the non-blank lines strictly between that marker and the next marker (or
\* the end of the document), joined with newlines and trimmed.
C10_EveryMarkerKeepsItsContent ==
    (pc = "return" /\ HasHeaderLine) =>
        LET markers == section_markers(TextLines)
        IN  \A idx \in 1..Len(markers) :
                /\ HasKey(sections, markers[idx][2])
                /\ Get(sections, markers[idx][2]) =
                       marker_content(TextLines, markers, idx)

\* the bucket content inference puts a stripped line into
Bucket(line) ==
    IF re_search(YEAR_PATTERN, line, FALSE) THEN "experience"
    ELSE IF re_search(TECH_PATTERN, line, TRUE) THEN "skills"
    ELSE "summary"
BucketLines(name) == SelectSeq(CleanLines, LAMBDA line : Bucket(line) = name)

\* C11: content inference is used exactly when the text has no header line.
\* Without a header line experience maps to all lines with a year token and
\* skills to all other lines with a technology name, in original order, and
\* summary to the first five of the remaining lines; with a header line only
\* sections that have a header line map to text.
C11_InferenceOnlyWithoutHeaders ==
    pc = "return" =>
        IF HasHeaderLine
        THEN \A k \in KeySet(sections) :
                Get(sections, k) # "" => HasHeaderFor(k)
        ELSE /\ KeySet(sections) = {"summary", "experience", "skills", "education"}
             /\ Get(sections, "experience") =
                    str_join("\n", BucketLines("experience"))
             /\ Get(sections, "skills") = str_join("\n", BucketLines("skills"))
             /\ Get(sections, "summary") =
                    str_join("\n", Slice(BucketLines("summary"), 5))
             /\ Get(sections, "education") = ""

C11_Witness ==
    /\ pc = "return"
    /\ ~HasHeaderLine
    /\ Len(BucketLines("summary")) > 5
    /\ Get(sections, "experience") = "Acme 2019"
    /\ Get(sections, "skills") = "Experienced in Java"
    /\ Get(sections, "summary") = "one\ntwo\nthree\nfour\nfive"

----------------------------------------------------------------------------
(* Claims about _clean_jd (SpecClean) *)

\* the words a noise header begins with
NOISE_HEADERS == {"benefits", "perks", "what we offer", "about us",
                  "about the company", "who we are", "equal opportunity", "eeo",
                  "diversity", "how to apply", "to apply", "salary",
                  "compensation", "pay range"}
RawLines == str_split(str_strip(jd_text), "\n")
IsNoiseHeader(line) ==
    \E h \in NOISE_HEADERS : str_startswith(str_lower(str_strip(line)), h)
\* capitalized, letters and spaces with an optional colon at the end, under 50
IsHeaderLike(line) ==
    LET t == str_strip(line)
        u == IF t # "" /\ Char(t, Len(t)) = ":" THEN SubSeq(t, 1, Len(t) - 1) ELSE t
    IN  /\ Len(t) < 50
        /\ Len(u) >= 2
        /\ Char(u, 1) \in UpperSet
        /\ \A i \in 2..Len(u) : Char(u, i) \in AlphaSet \cup SpaceSet
\* line n is in a noise section: a noise header at or before it, and no
\* header-like line that is no noise header since
InNoiseSection(n) ==
    \E m \in 1..n :
        /\ IsNoiseHeader(RawLines[m])
        /\ \A k \in (m + 1)..n :
               ~(IsHeaderLike(RawLines[k]) /\ ~IsNoiseHeader(RawLines[k]))
KeptLines ==
    LET at == SelectSeq([n \in 1..Len(RawLines) |-> n], LAMBDA n : ~InNoiseSection(n))
    IN  [k \in 1..Len(at) |-> RawLines[at[k]]]

\* C24 as stated: the output is the input lines in their order minus the lines
\* of noise sections, and nothing else is removed.
C24_OnlyNoiseSectionsRemoved ==
    pc = "return" => cleaned_text = str_join("\n", KeptLines)

\* C24: the output is the input lines in their order minus the lines of noise
\* sections, joined by newlines and with the whitespace at both ends of the
\* joined text removed; a noise section runs from a line that begins with a
\* noise header to the line before the next header-like line that is no noise
\* header.
C24_NoiseSectionsRemovedThenStripped ==
    pc = "return" => cleaned_text = str_strip(str_join("\n", KeptLines))

\* a noise section was removed, a later major section was kept, and the
\* final strip removed whitespace
C24_Witness ==
    /\ pc = "return"
    /\ \E m, n \in 1..Len(RawLines) :
          /\ m < n
          /\ InNoiseSection(m)
          /\ IsHeaderLike(RawLines[n]) /\ ~InNoiseSection(n)
    /\ cleaned_text # str_join("\n", KeptLines)

----------------------------------------------------------------------------
(* Claims about rewrite_resume (SpecOptimize) *)

\* the JD's keywords and hard skills, lowercased
TargetTerms ==
    {str_lower(t) : t \in SeqSet(jd_data.hard_skills)
                         \cup SeqSet(jd_data.keywords.primary)
                         \cup SeqSet(jd_data.keywords.secondary)}
\* the terms that occur in the text of a SectionMap, as _score_keywords looks
\* for them
TermsIn(secs) ==
    {t \in TargetTerms : keyword_found(str_lower(str_join(" ", Values(secs))), t)}

\* C21: with no external model configured, every JD keyword or hard-skill term
\* that occurs in the optimized sections occurred in the original sections, so
\* rewriting does not raise the number of JD keywords the scorer finds.
C21_RewriteAddsNoKeyword ==
    pc = "return" =>
        /\ TermsIn(optimized_sections) \subseteq TermsIn(resume_sections)
        /\ Cardinality(TermsIn(optimized_sections))
              <= Cardinality(TermsIn(resume_sections))

----------------------------------------------------------------------------
(* Claims about the resume registry (SpecRegistry) *)

StoredSections == {resume_store.val[n].sections : n \in 1..Len(resume_store.val)}

\* C19: in every reachable state of the resume registry, after any sequence of
\* upload_resume and update_sections requests, the sections map stored for
\* each resume has the four required keys summary, experience, skills and
\* education.
C19_StoredSectionsKeepRequiredKeys ==
    \A secs \in StoredSections :
        {"summary", "experience", "skills", "education"} \subseteq KeySet(secs)

----------------------------------------------------------------------------
(* Claims about the server's requests (SpecApi) *)

StoredJobs == {job_store.val[n] : n \in 1..Len(job_store.val)}
Rejected(status) == status \in 400..499
UnknownResume == ~HasKey(resume_store, api_request.resume_id)
UnknownJD == ~HasKey(jd_store, api_request.jd_id)
UnknownJob == ~HasKey(job_store, api_request.job_id)

\* the requests the claim lists are rejected
ListedRequestsAreRejected ==
    /\ api_request.op = "upload_resume" /\ str_strip(api_request.text) = ""
          => api_response = 400
    /\ api_request.op = "extract_jd"
          /\ Len(str_strip(api_request.input_data.text)) < 100
          => api_response = 400
    /\ api_request.op = "start_optimization" /\ (UnknownResume \/ UnknownJD)
          => api_response = 404
    /\ api_request.op \in {"get_resume", "update_sections"} /\ UnknownResume
          => api_response = 404
    /\ api_request.op = "get_jd" /\ UnknownJD => api_response = 404
    /\ api_request.op \in {"get_job_status", "get_job_result", "download_resume"}
          /\ UnknownJob
          => api_response = 404

\* C22: a request that is rejected with a 4xx response (a resume upload with
\* no or empty text, a JD extraction with missing text or with text shorter
\* than 100 characters after trimming, an optimize request with an unknown
\* resume_id or jd_id, a get, update, result or download request for an
\* unknown id) leaves resume_store, jd_store and job_store unchanged; a
\* rejected optimize request creates no job.
C22_RejectedRequestsChangeNoStore ==
    /\ []ListedRequestsAreRejected
    /\ [][Rejected(api_response')
            => UNCHANGED <<resume_store, jd_store, job_store>>]_vars

\* an optimize request for an unknown JD was rejected while a resume and a job
\* were stored
C22_Witness ==
    /\ api_request.op = "start_optimization"
    /\ api_response = 404
    /\ ~UnknownResume
    /\ job_store # EmptyDict

\* what get_job_result and download_resume answer, by the job store
ResultAnswer ==
    api_request.op \in {"get_job_result", "download_resume"} =>
        IF UnknownJob THEN api_response = 404
        ELSE IF Get(job_store, api_request.job_id).status # "completed"
        THEN api_response = 400
        ELSE LET result == Get(job_store, api_request.job_id).result
             IN  /\ api_response = 200
                 /\ api_body.optimized_resume = result.optimized_resume
                 /\ api_body.ats_score = result.ats_score
                 /\ api_request.op = "get_job_result" =>
                       /\ api_body.improvements = result.improvements
                       /\ api_body.remaining_gaps = result.remaining_gaps

\* a job that start_optimization reports as completed is stored as completed,
\* with its result
ReportedCompletedIsStored ==
    api_request.op = "start_optimization" /\ api_response = 200
    /\ api_body.status = "completed"
    => /\ HasKey(job_store, api_body.job_id)
       /\ Get(job_store, api_body.job_id).status = "completed"
       /\ DOMAIN Get(job_store, api_body.job_id).result
            = {"optimized_resume", "ats_score", "improvements", "remaining_gaps"}

\* no request removes or changes a completed job
CompletedJobsStay ==
    \A n \in 1..Len(job_store.keys) :
        job_store.val[n].status = "completed"
        => /\ HasKey(job_store', job_store.keys[n])
           /\ Get(job_store', job_store.keys[n]) = job_store.val[n]

\* C23: get_job_result and download_resume answer 404 for a job id that is
\* not in job_store, 400 for a job whose status is not "completed", and with
\* the stored result only when the status is "completed"; a job that
\* start_optimization reported as completed is stored with its result and
\* stays so, so that its result can be fetched by any later request.
C23_ResultServedOnlyWhenCompleted ==
    /\ []ResultAnswer
    /\ []ReportedCompletedIsStored
    /\ [][CompletedJobsStay]_vars

\* the result of a completed job was fetched
C23_Witness ==
    /\ api_request.op = "get_job_result"
    /\ api_response = 200
    /\ api_body.improvements # <<>>

\* a job entry that is not in an intermediate state
Settled(job) ==
    \/ job.status = "completed" /\ job.progress = 100
    \/ job.status = "failed"

\* the job entries a request has read, the stored ones, and the statuses in
\* the responses are settled
OnlySettledJobsSeen ==
    /\ \A n \in 1..Len(seen_jobs) : Settled(seen_jobs[n])
    /\ \A job \in StoredJobs : Settled(job)
    /\ api_request.op \in {"start_optimization", "get_job_status"}
          /\ api_response = 200
          => api_body.status \in {"completed", "failed"}
    /\ api_request.op = "get_job_status" /\ api_response = 200
          => \/ api_body.status = "completed" /\ api_body.progress = 100
             \/ api_body.status = "failed"

\* an optimize request that passes validation adds exactly one job, the one
\* its response names, and changes no other job
OptimizeAddsOneJob ==
    api_request'.op = "start_optimization"
    /\ HasKey(resume_store, api_request'.resume_id)
    /\ HasKey(jd_store, api_request'.jd_id)
    => /\ api_response' = 200
       /\ Len(job_store'.keys) = Len(job_store.keys) + 1
       /\ ~HasKey(job_store, api_body'.job_id)
       /\ HasKey(job_store', api_body'.job_id)
       /\ \A n \in 1..Len(job_store.keys) :
              Get(job_store', job_store.keys[n]) = job_store.val[n]

PipelineRaises ==
    /\ api_request.op = "start_optimization"
    /\ ~UnknownResume /\ ~UnknownJD
    /\ join_raises(Get(resume_store, api_request.resume_id).sections)

\* what a failed pipeline leaves, and what the job handlers answer for it
FailedJobRecorded ==
    /\ PipelineRaises
          => /\ api_response = 200
             /\ DOMAIN api_body = {"job_id", "status"}
             /\ api_body.status = "failed"
             /\ HasKey(job_store, api_body.job_id)
             /\ Get(job_store, api_body.job_id).status = "failed"
    /\ \A job \in StoredJobs :
          job.status = "failed" => DOMAIN job = {"status", "error"} /\ job.error # ""
    /\ api_request.op = "get_job_status" /\ ~UnknownJob
          /\ Get(job_store, api_request.job_id).status = "failed"
          => /\ api_response = 200
             /\ api_body = [job_id |-> api_request.job_id, status |-> "failed",
                             progress |-> 0, step |-> ""]
    /\ api_request.op = "get_job_result" /\ ~UnknownJob
          /\ Get(job_store, api_request.job_id).status = "failed"
          => api_response = 400

\* C26: when a step of start_optimization's pipeline raises, the job is
\* recorded as {status: "failed", error: message} without a partial result,
\* the optimize request answers 200 with the job_id and the status "failed",
\* get_job_status reports the job as failed with progress 0 and an empty
\* step, get_job_result answers 400 for it, and the optimize request changes
\* neither resume_store nor jd_store.
C26_FailedPipelineRecordsFailedJob ==
    /\ []FailedJobRecorded
    /\ [][api_request'.op = "start_optimization"
            => UNCHANGED <<resume_store, jd_store>>]_vars

\* the status of a failed job was read
C26_Witness ==
    /\ api_request.op = "get_job_status"
    /\ api_response = 200
    /\ api_body.status = "failed"

----------------------------------------------------------------------------
(* Claims about the rewriter's external step (SpecRewrite) *)

\* the original text the external model was given and what is left of its
\* answer when the signs around it are stripped
OriginalText == IF rewrite_call.kind = "bullet" THEN str_strip(rewrite_call.original)
                ELSE rewrite_call.original
ModelOutput(reply) ==
    IF rewrite_call.kind = "bullet" THEN clean_bullet_reply(reply.text)
    ELSE str_strip_chars(str_strip(reply.text), {"\"", "'"})
\* the output names a metric the original has not, or is more than twice as long
Fabricated(reply) ==
    \/ SeqSet(re_findall(NEW_METRIC, ModelOutput(reply), FALSE))
           \ SeqSet(re_findall(NEW_METRIC, OriginalText, FALSE)) # {}
    \/ Len(ModelOutput(reply)) > 2 * Len(OriginalText)
Failed(reply) == reply.raises \/ Fabricated(reply)
\* a model is configured and every configured model raises or fabricates
EveryModelFails ==
    /\ rewrite_call.gemini \/ rewrite_call.openai
    /\ rewrite_call.gemini => Failed(rewrite_call.gemini_reply)
    /\ rewrite_call.openai => Failed(rewrite_call.openai_reply)
RuleBasedRewrite ==
    IF rewrite_call.kind = "bullet"
    THEN rule_based_bullet(OriginalText, bullet_keywords(jd_data, hash_seed))
    ELSE rule_based_summary(OriginalText, Slice(jd_data.keywords.primary, 5))

\* C20: whenever the external model's call raises, or its output adds a metric
\* the original has not or is more than twice the original's length, the text
\* returned for the bullet or summary is the rule-based rewrite of the original.
C20_FailedRewriteFallsBackToRules ==
    (pc = "return" /\ EveryModelFails) => rewrite_result = RuleBasedRewrite

----------------------------------------------------------------------------
(* Claims about analyze_gaps (SpecGap) *)

\* the lowercased terms of the resume and of the JD handed to analyze_gaps
ResumeSkills == extract_resume_skills(resume_sections)
Primary == {str_lower(t) : t \in SeqSet(jd_data.keywords.primary)}
Secondary == {str_lower(t) : t \in SeqSet(jd_data.keywords.secondary)}
HardSkills == {str_lower(t) : t \in SeqSet(jd_data.hard_skills)}
MissingPrimary == Primary \ ResumeSkills
MissingSecondary == Secondary \ ResumeSkills
MissingHard == HardSkills \ ResumeSkills
CriticalSet == MissingPrimary \cup (MissingHard \cap Primary)
OptionalSet == MissingSecondary \cup (MissingHard \ Primary)
MatchedSet == ResumeSkills \cap (HardSkills \cup Primary \cup Secondary)
Min(a, b) == IF a < b THEN a ELSE b
\* q lists n members of S, or all of them if S has fewer, each once
TruncationOf(q, S, n) ==
    /\ SeqSet(q) \subseteq S
    /\ NoRepeats(q)
    /\ Len(q) = Min(n, Cardinality(S))
AllSectionsEmpty == \A n \in 1..Len(resume_sections.val) : resume_sections.val[n] = ""

\* the concatenated resume sections, and the JD's terms, lowercased
ResumeText == str_join(" ", Values(resume_sections))
JDTerms == HardSkills \cup Primary \cup Secondary
GapTerms == SeqSet(gaps.critical) \cup SeqSet(gaps.optional)
\* term stands in the resume text as a whole word, case-insensitively
OccursAsWord(term) == re_search(Cat(<<WB, Lit(term), WB>>), ResumeText, TRUE)
\* _score_keywords counts the term as matched (scorer.py line 80)
ScorerMatches(term) == keyword_found(str_lower(ResumeText), term)

\* C27: a JD hard skill or keyword that occurs as a whole word in the
\* concatenated resume sections, case-insensitively, is in neither critical
\* nor optional; so no keyword the scorer counts as matched is a gap.
C27_GapsConsistentWithResumeText ==
    pc = "return" =>
        \A term \in JDTerms :
            (OccursAsWord(term) \/ ScorerMatches(term)) => term \notin GapTerms

\* C28: for a JD that extract_jd_intelligence produced, critical, optional and
\* matched_skills are pairwise disjoint, critical holds lowercased primary
\* keywords only, and optional holds no primary keyword.
C28_GapListsDisjoint ==
    pc = "return" =>
        /\ SeqSet(gaps.critical) \cap SeqSet(gaps.optional) = {}
        /\ SeqSet(gaps.critical) \cap SeqSet(gaps.matched_skills) = {}
        /\ SeqSet(gaps.optional) \cap SeqSet(gaps.matched_skills) = {}
        /\ SeqSet(gaps.critical) \subseteq Primary
        /\ SeqSet(gaps.optional) \cap Primary = {}

\* a missing primary keyword, a missing secondary one and a matched skill
C28_Witness ==
    /\ pc = "return"
    /\ jd_data = extract_jd_intelligence(jd_text, hash_seed)
    /\ gaps.critical # <<>>
    /\ gaps.optional # <<>>
    /\ gaps.matched_skills # <<>>

\* C12: critical lists missing_primary \cup (missing_hard \cap primary) and optional
\* lists missing_secondary \cup (missing_hard \ primary), over lowercased terms,
\* each cut to at most 10 entries.
C12_CriticalAndOptionalGaps ==
    pc = "return" =>
        /\ TruncationOf(gaps.critical, CriticalSet, 10)
        /\ TruncationOf(gaps.optional, OptionalSet, 10)

C12_Witness ==
    /\ pc = "return"
    /\ ResumeSkills # {}
    /\ gaps.critical = <<"python">>
    /\ Len(gaps.optional) = 10
    /\ Cardinality(OptionalSet) > 10

\* C13: matched_skills lists resume_skills \cap (hard_skills \cup primary \cup
\* secondary), over lowercased terms, cut to at most 15 entries; every entry is
\* a skill of the resume and a skill of the JD.
C13_MatchedSkills ==
    pc = "return" =>
        /\ TruncationOf(gaps.matched_skills, MatchedSet, 15)
        /\ \A t \in SeqSet(gaps.matched_skills) :
              /\ t \in ResumeSkills
              /\ t \in HardSkills \cup Primary \cup Secondary

C13_Witness ==
    /\ pc = "return"
    /\ Len(gaps.matched_skills) = 15
    /\ Cardinality(MatchedSet) = 16
    /\ ResumeSkills \ MatchedSet # {}

\* C14, as claimed: when every section is the empty string, critical, optional,
\* matched_skills and weak_bullets are all empty, for every JDIntelligence.
C14_EmptySectionsEmptyGaps ==
    (pc = "return" /\ AllSectionsEmpty) =>
        /\ gaps.critical = <<>>
        /\ gaps.optional = <<>>
        /\ gaps.matched_skills = <<>>
        /\ gaps.weak_bullets = <<>>

\* C14, amended: when every section is the empty string, matched_skills and
\* weak_bullets are empty, critical lists every primary term of the JD, optional
\* lists up to 10 of its other terms, and missing_count counts the primary and
\* the hard-skill terms.
C14_EmptySectionsMissEverything ==
    (pc = "return" /\ AllSectionsEmpty) =>
        /\ gaps.matched_skills = <<>>
        /\ gaps.weak_bullets = <<>>
        /\ SeqSet(gaps.critical) = Primary
        /\ TruncationOf(gaps.optional, Secondary \cup (HardSkills \ Primary), 10)
        /\ gaps.missing_count = Cardinality(Primary) + Cardinality(HardSkills)

C14_Witness ==
    /\ pc = "return"
    /\ AllSectionsEmpty
    /\ Len(gaps.critical) = 10
    /\ gaps.optional # <<>>
    /\ gaps.missing_count = 21

\* the lines of the experience section that open with a bullet or number sign,
\* without that sign
ExperienceLines == str_split(Get(resume_sections, "experience"), "\n")
BulletSign == Alt(<<Cat(<<BOL, Cls({"-", BULLET}), ws0>>),
                    Cat(<<BOL, Rep(DigitSet, 1), Lit("."), ws0>>)>>)
IsBulletLine(line) == re_match(BulletSign, line, FALSE)
BulletBody(line) ==
    str_strip(SubSeq(line, FindSpans(BulletSign, line, FALSE)[1][2], Len(line)))
\* a bullet with no issue: 50 characters or more, a strong verb first, a metric,
\* no passive construction
IsStrong(body) ==
    /\ Len(body) >= 50
    /\ re_match(STARTS_WITH_VERB, body, TRUE)
    /\ re_search(BULLET_METRICS, body, TRUE)
    /\ ~re_search(PASSIVE_VOICE, body, TRUE)

\* C15: a bullet of 50 characters or more that starts with a strong verb, has a
\* metric and no passive construction is never reported as weak, wherever it
\* stands in the experience section; at most 5 fragments are reported.
C15_StrongBulletNeverReported ==
    pc = "return" =>
        /\ Len(gaps.weak_bullets) <= 5
        /\ \A n \in 1..Len(ExperienceLines) :
              (IsBulletLine(ExperienceLines[n])
               /\ IsStrong(BulletBody(ExperienceLines[n]))) =>
                  \A k \in 1..Len(gaps.weak_bullets) :
                      ~str_contains(gaps.weak_bullets[k].text,
                                    BulletBody(ExperienceLines[n]))

----------------------------------------------------------------------------
(* Claims about extract_jd_intelligence (SpecJD) *)

\* C4: keywords.primary and keywords.secondary are disjoint, each has at most
\* 10 entries, and every entry of either is an element of hard_skills.
C4_KeywordListsDisjointCapped ==
    pc = "return" =>
        /\ SeqSet(jd_data.keywords.primary) \cap SeqSet(jd_data.keywords.secondary) = {}
        /\ Len(jd_data.keywords.primary) <= 10
        /\ Len(jd_data.keywords.secondary) <= 10
        /\ SeqSet(jd_data.keywords.primary) \subseteq SeqSet(jd_data.hard_skills)
        /\ SeqSet(jd_data.keywords.secondary) \subseteq SeqSet(jd_data.hard_skills)

\* the cap cut the primary list, and both lists have entries
C4_Witness ==
    /\ pc = "return"
    /\ Len(jd_data.keywords.primary) = 10
    /\ Len(jd_data.keywords.secondary) >= 1
    /\ Len(jd_data.hard_skills) >
           Len(jd_data.keywords.primary) + Len(jd_data.keywords.secondary)

InLexiconOrder(q) ==
    \A m, n \in 1..Len(q) : m < n => LexiconPosition(q[m]) < LexiconPosition(q[n])

\* C5: extract_jd_intelligence is deterministic: whatever process runs it, the
\* same text gives the same output, the truncated lists keywords.primary and
\* keywords.secondary included, and their order is the lexicon's scan order.
C5_SameOutputInLexiconOrder ==
    pc = "return" =>
        /\ \A seed \in HashSeeds : extract_jd_intelligence(jd_text, seed) = jd_data
        /\ InLexiconOrder(jd_data.hard_skills)
        /\ InLexiconOrder(jd_data.keywords.primary)
        /\ InLexiconOrder(jd_data.keywords.secondary)

\* some pattern of SENIORITY_PATTERNS[n] matches somewhere in the JD text
LevelMatches(n) ==
    \E k \in 1..Len(SENIORITY_PATTERNS[n].patterns) :
        re_search(SENIORITY_PATTERNS[n].patterns[k], jd_text, TRUE)

\* C8: the seniority is the first of senior, mid, junior, principal one of whose
\* patterns matches anywhere in the text, and mid when none matches.
C8_FirstMatchingLevelWins ==
    pc = "return" =>
        /\ <<SENIORITY_PATTERNS[1].level, SENIORITY_PATTERNS[2].level,
             SENIORITY_PATTERNS[3].level, SENIORITY_PATTERNS[4].level>>
               = <<"senior", "mid", "junior", "principal">>
        /\ jd_data.seniority =
              IF LevelMatches(1) THEN "senior"
              ELSE IF LevelMatches(2) THEN "mid"
              ELSE IF LevelMatches(3) THEN "junior"
              ELSE IF LevelMatches(4) THEN "principal"
              ELSE "mid"

\* a senior pattern wins over junior and principal patterns that match too
C8_Witness ==
    /\ pc = "return"
    /\ jd_data.seniority = "senior"
    /\ LevelMatches(3) \/ LevelMatches(4)

\* the number of tokens of the lower-cased JD text that equal w: runs of
\* letters, at least three, with no word character before or after
TokenCount(w) ==
    LET t == str_lower(jd_text)
    IN  IF Len(w) < 3 \/ ~(CharsOf(w) \subseteq LowerSet) THEN 0
        ELSE Cardinality({i \in 1..Len(t) :
                 /\ i + Len(w) - 1 <= Len(t)
                 /\ SubSeq(t, i, i + Len(w) - 1) = w
                 /\ ~IsWordAt(t, i - 1)
                 /\ ~IsWordAt(t, i + Len(w))})
Qualifies(label) == TokenCount(str_lower(label)) >= 2

\* C9: a hard skill is primary iff its lower-case form occurs at least twice
\* among the text's alphabetic tokens of length >= 3, every other hard skill is
\* secondary, and each list is cut to its first 10 entries; with neither cap
\* exceeded every hard skill is in exactly one of the two lists.
C9_PrimaryIffRepeated ==
    pc = "return" =>
        LET hs  == jd_data.hard_skills
            pri == SelectSeq(hs, Qualifies)
            sec == SelectSeq(hs, LAMBDA sk : ~Qualifies(sk))
        IN  /\ jd_data.keywords.primary = Slice(pri, 10)
            /\ jd_data.keywords.secondary = Slice(sec, 10)
            /\ (Len(pri) <= 10 /\ Len(sec) <= 10) =>
                  \A sk \in SeqSet(hs) :
                      InSeq(sk, jd_data.keywords.primary)
                          # InSeq(sk, jd_data.keywords.secondary)

\* a repeated skill and a skill named once, with neither cap exceeded
C9_Witness ==
    /\ pc = "return"
    /\ Len(jd_data.hard_skills) <= 10
    /\ \E a, b \in SeqSet(jd_data.hard_skills) :
          /\ InSeq(a, jd_data.keywords.primary)
          /\ InSeq(b, jd_data.keywords.secondary)
          /\ TokenCount(str_lower(b)) = 1

\* the lexicon entry is one run of at least three letters
IsPlainWord(entry) == Len(entry) >= 3 /\ CharsOf(entry) \subseteq LowerSet
\* the number of places of the lower-cased JD text at which entry is written
Occurrences(entry) ==
    LET t == str_lower(jd_text)
    IN  Cardinality({i \in 1..Len(t) : /\ i + Len(entry) - 1 <= Len(t)
                                       /\ SubSeq(t, i, i + Len(entry) - 1) = entry})

\* C29: a hard skill whose lexicon entry is multi-word, has a non-alphabetic
\* character or has fewer than 3 letters is never in keywords.primary, however
\* often the JD names it; of the two keyword lists only secondary can hold it.
C29_OnlyPlainWordsArePrimary ==
    pc = "return" =>
        /\ \A n \in 1..Len(jd_data.keywords.primary) :
               IsPlainWord(str_lower(jd_data.keywords.primary[n]))
        /\ \A n \in 1..Len(jd_data.hard_skills) :
               LET sk == jd_data.hard_skills[n]
               IN  (~IsPlainWord(str_lower(sk))
                      /\ (InSeq(sk, jd_data.keywords.primary)
                            \/ InSeq(sk, jd_data.keywords.secondary)))
                     => (InSeq(sk, jd_data.keywords.secondary)
                           /\ ~InSeq(sk, jd_data.keywords.primary))

\* node.js is named twice, is a hard skill, and is a secondary keyword
C29_Witness ==
    /\ pc = "return"
    /\ Occurrences("node.js") >= 2
    /\ InSeq("Node.Js", jd_data.hard_skills)
    /\ InSeq("Node.Js", jd_data.keywords.secondary)
    /\ jd_data.keywords.primary # <<>>

----------------------------------------------------------------------------
(* Claims about calculate_ats_score (SpecScore) *)

Percentages == 0..100
InRange(r) ==
    /\ r.score \in Percentages
    /\ r.breakdown.keywords \in Percentages
    /\ r.breakdown.sections \in Percentages
    /\ r.breakdown.format \in Percentages
    /\ r.breakdown.quality \in Percentages

WeightedSum100(r) ==
    40 * r.breakdown.keywords + 20 * r.breakdown.sections
        + 20 * r.breakdown.format + 20 * r.breakdown.quality

\* C3: the score is the integer nearest to 0.40 keywords + 0.20 sections
\* + 0.20 format + 0.20 quality, taken over the breakdown of the same report.
C3_ScoreIsRoundedWeightedSum ==
    pc \in {"return", "appended"} =>
        /\ 100 * report.score - WeightedSum100(report) <= 50
        /\ WeightedSum100(report) - 100 * report.score <= 50

\* the weighted sum is not an integer and the sub-scores differ
C3_Witness ==
    /\ pc = "return"
    /\ WeightedSum100(report) % 100 # 0
    /\ report.breakdown.keywords # report.breakdown.quality
    /\ report.breakdown.sections # report.breakdown.format

\* the JD's keywords: the union of its primary, secondary and hard-skill terms
AllKeywords == SeqSet(jd_data.keywords.primary)
               \cup SeqSet(jd_data.keywords.secondary)
               \cup SeqSet(jd_data.hard_skills)
\* the lowercased concatenation of all section values
AllTextLower == str_lower(str_join(" ", resume_sections.val))
MatchedKeywords == {k \in AllKeywords : str_contains(AllTextLower, str_lower(k))}
IsKeywordNote(n) == Slice(n, 9) = "+ Matched" \/ Slice(n, 18) = "- Missing keywords"
NotesOf(r) == r.improvements \o r.remaining_gaps

\* C16: the keyword sub-score is 100 x matched / total as an integer, matched
\* counting the keywords whose lowercase form is a substring of the lowercased
\* concatenation of all section values; with no keyword it is 100 and no
\* keyword note is emitted.
C16_KeywordScoreIsMatchedShare ==
    pc # "call" =>
        IF AllKeywords = {}
        THEN /\ report.breakdown.keywords = 100
             /\ \A n \in SeqSet(NotesOf(report)) : ~IsKeywordNote(n)
        ELSE report.breakdown.keywords =
                (100 * Cardinality(MatchedKeywords)) \div Cardinality(AllKeywords)

\* the notes of the quality sub-scorer, by their opening words
StartsWith(n, prefix) == Slice(n, Len(prefix)) = prefix
QUALITY_NOTE_PREFIXES ==
    {"- No experience section", "+ Strong use of action verbs",
     "+ Some action verbs used", "- Few action verbs",
     "+ Contains quantifiable achievements", "- No metrics/numbers",
     "+ Well-structured with", "- Could use more bullet points"}
IsQualityNote(n) == \E prefix \in QUALITY_NOTE_PREFIXES : StartsWith(n, prefix)
Experience == GetOr(resume_sections, "experience", "")
STRONG_VERBS == {"led", "developed", "built", "created", "managed", "designed",
                 "implemented", "achieved", "increased", "reduced", "delivered",
                 "launched", "optimized"}
\* the places of the experience text at which a strong verb stands as a word
VerbPlaces ==
    LET t == str_lower(Experience)
    IN  {i \in 1..Len(t) : \E v \in STRONG_VERBS :
            /\ i + Len(v) - 1 <= Len(t)
            /\ SubSeq(t, i, i + Len(v) - 1) = v
            /\ ~IsWordAt(t, i - 1)
            /\ ~IsWordAt(t, i + Len(v))}
\* the newline, bullet sign, whitespace triples of the experience text
BulletPlaces == {i \in 1..(Len(Experience) - 2) :
                    /\ Char(Experience, i) = "\n"
                    /\ Char(Experience, i + 1) \in {"-", BULLET}
                    /\ Char(Experience, i + 2) \in SpaceSet}
QualityFormula ==
    LET v == IF Cardinality(VerbPlaces) >= 5 THEN 0
             ELSE IF Cardinality(VerbPlaces) >= 2 THEN 10 ELSE 25
        m == IF re_search(METRICS, Experience, TRUE) THEN 0 ELSE 20
        b == IF Cardinality(BulletPlaces) >= 5 THEN 0 ELSE 10
    IN  IF 100 - v - m - b < 0 THEN 0 ELSE 100 - v - m - b

\* C17: the quality sub-score is 50 when the experience section is absent or
\* empty, with one quality note, which is negative and among remaining_gaps;
\* otherwise it is max(0, 100 - v - m - b) with v = 0, 10 or 25 for an
\* action-verb count of at least 5, of 2 to 4, or below 2, m = 0 or 20 for a
\* metric present or not, and b = 0 or 10 for at least 5 bullet points or fewer.
C17_QualityFromExperienceOnly ==
    pc # "call" =>
        IF Experience = ""
        THEN /\ report.breakdown.quality = 50
             /\ SelectSeq(report.improvements, IsQualityNote) = <<>>
             /\ SelectSeq(report.remaining_gaps, IsQualityNote) =
                    <<"- No experience section to evaluate">>
        ELSE /\ report.breakdown.quality = QualityFormula
             /\ Len(SelectSeq(NotesOf(report), IsQualityNote)) = 3

C17_Witness ==
    /\ pc = "return"
    /\ Experience # ""
    /\ Cardinality(VerbPlaces) = 2
    /\ Cardinality(BulletPlaces) = 2
    /\ report.breakdown.quality = 60

\* the notes of the format sub-scorer, by the check that emits them
SPECIAL_CHARACTER_NOTES == {"- Contains special characters that may break ATS parsing",
                            "+ No problematic special characters"}
LENGTH_NOTES == {"- Resume too short (under 200 words)",
                 "- Resume may be too long (over 1500 words)",
                 "+ Good resume length"}
NoteCount(r, S) == Len(SelectSeq(NotesOf(r), LAMBDA n : n \in S))
ImageTableNoteCount(r) ==
    Len(SelectSeq(NotesOf(r), LAMBDA n :
            str_contains(str_lower(n), "image") \/ str_contains(str_lower(n), "table")))

\* C18: for every input the format sub-scorer emits exactly one note for the
\* special-character check, one for the [image]/[table] marker check and one
\* for the length check.
C18_OneNotePerFormatCheck ==
    pc # "call" =>
        /\ NoteCount(report, SPECIAL_CHARACTER_NOTES) = 1
        /\ ImageTableNoteCount(report) = 1
        /\ NoteCount(report, LENGTH_NOTES) = 1

\* C30: the quality sub-score is at least 45 and the format sub-score at least
\* 50, so neither floor at 0 is reached; quality 45 is given only to a non-empty
\* experience section with fewer than 2 action verbs, no metric and fewer than
\* 5 bullet points, which is below the 50 of an absent experience section.
C30_SubScoresNeverReachFloor ==
    /\ pc # "call" =>
          /\ report.breakdown.quality >= 45
          /\ report.breakdown.format >= 50
          /\ report.breakdown.quality = 45 =>
                 /\ Experience # ""
                 /\ Cardinality(VerbPlaces) < 2
                 /\ ~re_search(METRICS, Experience, TRUE)
                 /\ Cardinality(BulletPlaces) < 5
          /\ Experience = "" => report.breakdown.quality = 50
    /\ pc = "appended" =>
          /\ report_appended.breakdown.quality >= 45
          /\ report_appended.breakdown.format >= 50

\* both sub-scores at their lowest: every deduction applies
C30_Witness ==
    /\ pc = "return"
    /\ Experience # ""
    /\ report.breakdown.quality = 45
    /\ report.breakdown.format = 50

\* C6: appending every primary keyword of the JD to the skills section does
\* not lower the keyword sub-score.
C6_AppendingPrimaryNeverLowersKeywords ==
    pc = "appended" =>
        report_appended.breakdown.keywords >= report.breakdown.keywords

=============================================================================
